---- MODULE Spec2Model ----
(***************************************************************************)
(* A model of hyperion: the core library (blocks, Merkle root, compact     *)
(* targets, proof of work, chain append), the node's RPC handlers over the *)
(* chain and the mempool, and the miner's coordinator and workers.         *)
(*                                                                         *)
(* Bytes are naturals.  A 32-byte digest is modelled by the sequence that  *)
(* identifies it: <<0, b>> is the array [b; 32], and <<1>> \o data is      *)
(* double_sha256(data), so that SHA-256 is collision free.  The magnitude  *)
(* of a digest (the 256-bit number validate_pow compares with the target)  *)
(* is given by DigestBytes, a fixed mixing function of the hashed data.    *)
(***************************************************************************)
EXTENDS Integers, Sequences, FiniteSets, TLC

\* ------------------------------------------------------------------ bounds

\* Number of concurrent RPC clients of the node.
NumClients == 2
\* Number of submit_block calls the clients make in one behaviour.
MaxSubmits == 2
\* Number of get_block_template and info calls the clients make.
MaxQueries == 2
\* Number of test transactions main() puts into the mempool (215 in the source).
NumTestTx == 2
\* The longest chain built through add_block alone.
MaxBlocks == 4
\* Number of mining workers (config.threads).
NumWorkers == 2
\* Number of templates the miner fetches in one behaviour.
MaxFetches == 2
\* Number of template requests the node fails in one behaviour.
MaxFetchFailures == 1
\* Width of a nonce in bits (64 in the source).
NonceBits == 15
\* The largest mempool a template is drained from.
MaxPool == 102
\* The largest number of mining threads (config.threads).
MaxThreads == 128
\* The longest chain built through mine_new_block.
MaxMined == 11
\* The longest transaction list a Merkle root is computed of.
MaxMerkle == 7
\* The longest encoding of a block that is decoded.
MaxEncoding == 91
\* the longest chain validate_with_options is called on
MaxValidated == 3

\* --------------------------------------------------------- program constants

HASH_SIZE == 32
EXPONENT_BIAS == 3
MANTISSA_MASK == 8388607
ADJUSTMENT_INTERVAL == 10
\* 0x207fffff, the difficulty of the genesis block
GENESIS_COMPACT == 545259519
\* 0x1d00ffff, the difficulty used by the tests of header.rs
HARD_COMPACT == 486604799
\* get_block_template drains at most this many transactions
TEMPLATE_TX_LIMIT == 100

\* mine_work: nonces between two looks at the cancellation state
BATCH_SIZE == 10000
\* capacity of the result channel and of each work channel
CHANNEL_CAPACITY == 10
\* the coordinator's timers, in units of 100 ms: heartbeat and staleness timer
HEARTBEAT_SLEEP == 1
STALE_SLEEP == 300

\* ------------------------------------------------------------------ helpers

Min(a, b) == IF a <= b THEN a ELSE b

Drop(s, n) == SubSeq(s, n + 1, Len(s))

Zeros(n) == [i \in 1..n |-> 0]

RECURSIVE Concat(_)
Concat(ss) == IF ss = <<>> THEN <<>> ELSE Head(ss) \o Concat(Tail(ss))

IsPrefix(s, t) == Len(s) <= Len(t) /\ SubSeq(t, 1, Len(s)) = s

\* ------------------------------------------------------------------ hashing

\* The array [b; HASH_SIZE].
ConstHash(b) == <<0, b>>

\* crypto::double_sha256: the digest of a byte string, identified by the string.
double_sha256(data) == <<1>> \o data

\* A 32-byte array inside an encoding (bincode writes the 32 bytes in place).
EncodeArray(d) == <<Len(d)>> \o d

\* One byte of the hashed data, reduced, or 0 past its end.
MixAt(data, i) == IF i <= Len(data) THEN data[i] % 16 ELSE 0

\* The leading byte of the digest of data: one of 8, 24, ..., 248.  It mixes the
\* length, the first four elements (for a header: version, time, difficulty and
\* nonce) and the last one.
Mix(data) ==
    16 * ((Len(data) + 3 * MixAt(data, 1) + 5 * MixAt(data, 2) + 7 * MixAt(data, 3)
              + 9 * MixAt(data, 4) + 11 * MixAt(data, Len(data))) % 16) + 8

\* The 32 bytes of a digest, big-endian.
DigestBytes(d) ==
    IF d[1] = 0 THEN [i \in 1..HASH_SIZE |-> d[2]]
    ELSE [i \in 1..HASH_SIZE |-> IF i = 1 THEN Mix(Drop(d, 1)) ELSE 85]

\* BigUint comparison a <= b of two big-endian byte strings of equal length.
RECURSIVE LeqBE(_, _)
LeqBE(a, b) ==
    IF a = <<>> THEN TRUE
    ELSE IF Head(a) # Head(b) THEN Head(a) < Head(b)
    ELSE LeqBE(Tail(a), Tail(b))

\* ------------------------------------------------------------ serialization

\* bincode of a Vec<u8>: the length, then the bytes.
EncodeBytes(v) == <<Len(v)>> \o v

\* bincode of a Vec<Vec<u8>>.
EncodeByteVecs(vs) == <<Len(vs)>> \o Concat([i \in 1..Len(vs) |-> EncodeBytes(vs[i])])

SerializeTx(tx) == EncodeByteVecs(tx.inputs) \o EncodeByteVecs(tx.outputs)

SerializeHeader(h) ==
    <<h.version, h.time, h.difficulty_compact, h.nonce>>
        \o EncodeArray(h.prev_hash) \o EncodeArray(h.merkle_root)

SerializeBlock(b) ==
    SerializeHeader(b.header)
        \o <<Len(b.transactions)>>
        \o Concat([i \in 1..Len(b.transactions) |-> SerializeTx(b.transactions[i])])

\* Hashable::double_sha256 for the three hashable types.
HashTx(tx) == double_sha256(SerializeTx(tx))
HashHeader(h) == double_sha256(SerializeHeader(h))
HashBlock(b) == double_sha256(SerializeBlock(b))

\* Decoding: each decoder returns [ok, val, rest].
Fail == [ok |-> FALSE, val |-> <<>>, rest |-> <<>>]

DecodeBytes(bs) ==
    IF Len(bs) >= 1 /\ Len(bs) >= 1 + bs[1]
    THEN [ok |-> TRUE, val |-> SubSeq(bs, 2, 1 + bs[1]), rest |-> Drop(bs, 1 + bs[1])]
    ELSE Fail

RECURSIVE DecodeSeqOf(_, _, _, _)
\* n items decoded by Item(_) from bs, appended to acc.
DecodeSeqOf(Item(_), n, bs, acc) ==
    IF n = 0 THEN [ok |-> TRUE, val |-> acc, rest |-> bs]
    ELSE LET r == Item(bs)
         IN  IF r.ok THEN DecodeSeqOf(Item, n - 1, r.rest, Append(acc, r.val)) ELSE Fail

DecodeByteVecs(bs) ==
    IF Len(bs) >= 1 THEN DecodeSeqOf(DecodeBytes, bs[1], Tail(bs), <<>>) ELSE Fail

DecodeTx(bs) ==
    LET i == DecodeByteVecs(bs)
        o == DecodeByteVecs(i.rest)
    IN  IF i.ok /\ o.ok
        THEN [ok |-> TRUE, val |-> [inputs |-> i.val, outputs |-> o.val], rest |-> o.rest]
        ELSE Fail

DecodeHeader(bs) ==
    IF Len(bs) < 4 THEN Fail
    ELSE LET p == DecodeBytes(Drop(bs, 4))
             m == DecodeBytes(p.rest)
         IN  IF p.ok /\ m.ok
             THEN [ok |-> TRUE,
                   val |-> [version |-> bs[1], time |-> bs[2],
                            difficulty_compact |-> bs[3], nonce |-> bs[4],
                            prev_hash |-> p.val, merkle_root |-> m.val],
                   rest |-> m.rest]
             ELSE Fail

\* Serializable::from_bytes for Block: decode_from_slice, the consumed length dropped.
BlockFromBytes(bs) ==
    LET h == DecodeHeader(bs)
        t == IF h.ok /\ Len(h.rest) >= 1
             THEN DecodeSeqOf(DecodeTx, h.rest[1], Tail(h.rest), <<>>)
             ELSE Fail
    IN  IF h.ok /\ t.ok
        THEN [ok |-> TRUE, val |-> [header |-> h.val, transactions |-> t.val], rest |-> t.rest]
        ELSE Fail

\* -------------------------------------------------------------- block model

\* A variant of Transaction::new that looks at the outputs first.
TransactionNewOutputsFirst(inputs, outputs) ==
    IF outputs = <<>> THEN [err |-> "EmptyOutputs"]
    ELSE IF inputs = <<>> THEN [err |-> "EmptyInputs"]
    ELSE [err |-> "Ok", tx |-> [inputs |-> inputs, outputs |-> outputs]]

\* Transaction::new: the error, or the transaction.
TransactionNew(inputs, outputs) ==
    IF inputs = <<>> THEN [err |-> "EmptyInputs"]
    ELSE IF outputs = <<>> THEN [err |-> "EmptyOutputs"]
    ELSE [err |-> "Ok", tx |-> [inputs |-> inputs, outputs |-> outputs]]

HeaderNew(version, time, difficulty_compact, nonce, prev_hash, merkle_root) ==
    [version |-> version, time |-> time, difficulty_compact |-> difficulty_compact,
     nonce |-> nonce, prev_hash |-> prev_hash, merkle_root |-> merkle_root]

BlockNew(header, transactions) == [header |-> header, transactions |-> transactions]

\* A variant of MerkleLevel that carries the last hash of a level of odd length
\* up as it is.
MerkleLevelPromote(hashes) ==
    [k \in 1..((Len(hashes) + 1) \div 2) |->
        LET i == 2 * k - 1
        IN  IF i + 1 <= Len(hashes)
            THEN double_sha256(EncodeArray(hashes[i]) \o EncodeArray(hashes[i + 1]))
            ELSE hashes[i]]

\* One level of the Merkle tree: adjacent pairs hashed, the last paired with itself.
MerkleLevel(hashes) ==
    [k \in 1..((Len(hashes) + 1) \div 2) |->
        LET i == 2 * k - 1
            left == hashes[i]
            right == IF i + 1 <= Len(hashes) THEN hashes[i + 1] ELSE hashes[i]
        IN  double_sha256(EncodeArray(left) \o EncodeArray(right))]

RECURSIVE MerkleReduce(_)
MerkleReduce(hashes) ==
    IF Len(hashes) <= 1 THEN hashes[1] ELSE MerkleReduce(MerkleLevel(hashes))

compute_merkle_root(transactions) ==
    IF transactions = <<>> THEN ConstHash(0)
    ELSE MerkleReduce([i \in 1..Len(transactions) |-> HashTx(transactions[i])])

\* Block::validate_merkle_root, TRUE for Ok(()).
validate_merkle_root(block) ==
    compute_merkle_root(block.transactions) = block.header.merkle_root

\* ------------------------------------------------------------- target codec

\* BigUint::to_bytes_be of the value of a big-endian byte string: no leading
\* zero byte, and the single byte 0 for zero.
RECURSIVE ToBytesBE(_)
ToBytesBE(bs) ==
    IF bs = <<>> THEN <<0>>
    ELSE IF Head(bs) = 0 /\ Len(bs) > 1 THEN ToBytesBE(Tail(bs))
    ELSE bs

\* The minimal big-endian bytes of the target a compact value encodes.
TargetBytes(difficulty_compact) ==
    LET exponent == difficulty_compact \div 16777216
        mantissa == difficulty_compact % (MANTISSA_MASK + 1)
        mbytes == <<(mantissa \div 65536) % 256, (mantissa \div 256) % 256, mantissa % 256>>
    IN  IF exponent > EXPONENT_BIAS
        THEN ToBytesBE(IF mantissa = 0 THEN <<>> ELSE mbytes \o Zeros(exponent - EXPONENT_BIAS))
        ELSE IF exponent < EXPONENT_BIAS
        THEN ToBytesBE(SubSeq(mbytes, 1, exponent))
        ELSE ToBytesBE(mbytes)

\* Header::compact_to_target and consensus::compact_to_target: the target in 32
\* bytes; HASH_SIZE - bytes.len() underflows (a panic) when it needs more.
CompactToTargetPanics(difficulty_compact) == Len(TargetBytes(difficulty_compact)) > HASH_SIZE

compact_to_target(difficulty_compact) ==
    LET bytes == TargetBytes(difficulty_compact)
    IN  Zeros(HASH_SIZE - Len(bytes)) \o bytes

\* A variant of target_to_compact that leaves a mantissa with its top bit set as
\* it is.
target_to_compact_unshifted(target) ==
    LET bytes == ToBytesBE(target)
        size == Len(bytes)
        m0 == IF size = 1 THEN bytes[1] * 65536
              ELSE IF size = 2 THEN bytes[1] * 65536 + bytes[2] * 256
              ELSE bytes[1] * 65536 + bytes[2] * 256 + bytes[3]
    IN  size * 16777216 + (m0 % (MANTISSA_MASK + 1))

\* consensus::target_to_compact of a BigUint given by big-endian bytes.
target_to_compact(target) ==
    LET bytes == ToBytesBE(target)
        size == Len(bytes)
        m0 == IF size <= 3
              THEN (IF size = 1 THEN bytes[1] * 65536
                    ELSE IF size = 2 THEN bytes[1] * 65536 + bytes[2] * 256
                    ELSE bytes[1] * 65536 + bytes[2] * 256 + bytes[3])
              ELSE bytes[1] * 65536 + bytes[2] * 256 + bytes[3]
        neg == (m0 \div 8388608) % 2 = 1
        mantissa == IF neg THEN m0 \div 256 ELSE m0
        size2 == IF neg THEN size + 1 ELSE size
    IN  size2 * 16777216 + (mantissa % (MANTISSA_MASK + 1))

\* consensus::validate_pow: hash(header) <= target as 256-bit numbers.
validate_pow(header) ==
    LeqBE(DigestBytes(HashHeader(header)), compact_to_target(header.difficulty_compact))

\* The digest of a header depends on its nonce modulo this period.
NoncePeriod == 16

\* The first nonce in lo..hi-1 that satisfies the target, or -1.
RECURSIVE FirstValidNonce(_, _, _)
FirstValidNonce(header, lo, hi) ==
    IF lo >= hi THEN -1
    ELSE IF validate_pow([header EXCEPT !.nonce = lo]) THEN lo
    ELSE FirstValidNonce(header, lo + 1, hi)

\* A variant of mine_block that starts the search at the nonce the header carries.
mine_block_from_carried(header) ==
    [header EXCEPT !.nonce = FirstValidNonce(header, header.nonce, header.nonce + NoncePeriod)]

\* consensus::mine_block: the search from nonce 0 upwards (a header no nonce
\* satisfies keeps the loop running: nonce -1 stands for no return).
mine_block(header) == [header EXCEPT !.nonce = FirstValidNonce(header, 0, NoncePeriod)]

\* consensus::create_genesis_block; "genesis" and "genesis_out" as bytes.
GenesisTx ==
    [inputs |-> << <<103, 101, 110, 101, 115, 105, 115>> >>,
     outputs |-> << <<103, 101, 110, 101, 115, 105, 115, 95, 111, 117, 116>> >>]

create_genesis_block ==
    LET merkle_root == compute_merkle_root(<<GenesisTx>>)
        header == HeaderNew(1, 0, GENESIS_COMPACT, 0, ConstHash(0), merkle_root)
    IN  BlockNew(mine_block(header), <<GenesisTx>>)

\* -------------------------------------------------------------------- chain

\* Blockchain::new_with_genesis
new_with_genesis == <<create_genesis_block>>

\* ---- variants of latest_block and add_block that the chain properties must tell
\* ---- from the code

\* The genesis block in place of the tail (front() for back()).
latest_block_front(blocks) == blocks[1]

\* Blockchain::latest_block
latest_block(blocks) == blocks[Len(blocks)]

\* add_block without the comparison of prev_hash with the tail's hash.
add_block_any_prev(blocks, block, skip_pow) ==
    IF ~validate_merkle_root(block)
    THEN [result |-> "InvalidMerkleRoot", blocks |-> blocks]
    ELSE IF ~skip_pow /\ ~validate_pow(block.header)
    THEN [result |-> "InvalidMerkleRoot", blocks |-> blocks]
    ELSE [result |-> "Ok", blocks |-> Append(blocks, block)]

\* add_block comparing prev_hash only when the proof of work is checked too.
add_block_prev_unless_skip(blocks, block, skip_pow) ==
    IF ~skip_pow /\ block.header.prev_hash # HashBlock(latest_block(blocks))
    THEN [result |-> "InvalidPreviousHash", blocks |-> blocks]
    ELSE IF ~validate_merkle_root(block)
    THEN [result |-> "InvalidMerkleRoot", blocks |-> blocks]
    ELSE IF ~skip_pow /\ ~validate_pow(block.header)
    THEN [result |-> "InvalidMerkleRoot", blocks |-> blocks]
    ELSE [result |-> "Ok", blocks |-> Append(blocks, block)]

\* add_block pushing the block at the front of the deque.
add_block_push_front(blocks, block, skip_pow) ==
    IF block.header.prev_hash # HashBlock(latest_block(blocks))
    THEN [result |-> "InvalidPreviousHash", blocks |-> blocks]
    ELSE IF ~validate_merkle_root(block)
    THEN [result |-> "InvalidMerkleRoot", blocks |-> blocks]
    ELSE IF ~skip_pow /\ ~validate_pow(block.header)
    THEN [result |-> "InvalidMerkleRoot", blocks |-> blocks]
    ELSE [result |-> "Ok", blocks |-> <<block>> \o blocks]

\* add_block validating the Merkle root before it compares prev_hash.
add_block_merkle_first(blocks, block, skip_pow) ==
    IF ~validate_merkle_root(block)
    THEN [result |-> "InvalidMerkleRoot", blocks |-> blocks]
    ELSE IF block.header.prev_hash # HashBlock(latest_block(blocks))
    THEN [result |-> "InvalidPreviousHash", blocks |-> blocks]
    ELSE IF ~skip_pow /\ ~validate_pow(block.header)
    THEN [result |-> "InvalidMerkleRoot", blocks |-> blocks]
    ELSE [result |-> "Ok", blocks |-> Append(blocks, block)]

\* Blockchain::add_block panics: the first two checks pass and validate_pow
\* calls compact_to_target on a compact whose target needs more than 32 bytes.
add_block_panics(blocks, block, skip_pow) ==
    /\ block.header.prev_hash = HashBlock(latest_block(blocks))
    /\ validate_merkle_root(block)
    /\ ~skip_pow
    /\ CompactToTargetPanics(block.header.difficulty_compact)

\* Blockchain::add_block: the outcome and the blocks afterwards.
add_block(blocks, block, skip_pow) ==
    IF block.header.prev_hash # HashBlock(latest_block(blocks))
    THEN [result |-> "InvalidPreviousHash", blocks |-> blocks]
    ELSE IF ~validate_merkle_root(block)
    THEN [result |-> "InvalidMerkleRoot", blocks |-> blocks]
    ELSE IF ~skip_pow /\ ~validate_pow(block.header)
    THEN [result |-> "InvalidMerkleRoot", blocks |-> blocks]
    ELSE [result |-> "Ok", blocks |-> Append(blocks, block)]

TARGET_BLOCK_TIME == 600

\* BigUint *= k for a small k: big-endian bytes, the carry added in front.
RECURSIVE BigMulSmall(_, _, _)
BigMulSmall(bytes, k, carry) ==
    IF bytes = <<>>
    THEN (IF carry = 0 THEN <<>> ELSE BigMulSmall(<<>>, k, carry \div 256) \o <<carry % 256>>)
    ELSE LET v == bytes[Len(bytes)] * k + carry
         IN  BigMulSmall(SubSeq(bytes, 1, Len(bytes) - 1), k, v \div 256) \o <<v % 256>>

\* BigUint /= d for a small d: long division from the most significant byte.
RECURSIVE BigDivSmall(_, _, _)
BigDivSmall(bytes, d, rem) ==
    IF bytes = <<>> THEN <<>>
    ELSE LET v == rem * 256 + Head(bytes)
         IN  <<v \div d>> \o BigDivSmall(Tail(bytes), d, v % d)

\* A variant of SaturatingSub: the distance of the two times, whichever is later.
SaturatingSubDistance(a, b) == IF a >= b THEN a - b ELSE b - a

\* u32::saturating_sub
SaturatingSub(a, b) == IF a >= b THEN a - b ELSE 0
Max(a, b) == IF a >= b THEN a ELSE b

\* A variant of the retarget that scales the target by expected over actual.
RetargetCompactInverse(blocks) ==
    LET len == Len(blocks)
        first_block == blocks[len - ADJUSTMENT_INTERVAL + 1]
        last_block == latest_block(blocks)
        actual_time == SaturatingSub(last_block.header.time, first_block.header.time)
        expected_time == TARGET_BLOCK_TIME * ADJUSTMENT_INTERVAL
        scaled == BigDivSmall(
                      BigMulSmall(compact_to_target(last_block.header.difficulty_compact),
                                  Max(expected_time, 1), 0),
                      Max(actual_time, 1), 0)
        target == IF Len(ToBytesBE(scaled)) > HASH_SIZE
                  THEN [i \in 1..HASH_SIZE |-> 255] ELSE scaled
    IN  target_to_compact(target)

\* consensus::adjust_difficulty at a length that is a multiple of the interval.
RetargetCompact(blocks) ==
    LET len == Len(blocks)
        first_block == blocks[len - ADJUSTMENT_INTERVAL + 1]
        last_block == latest_block(blocks)
        actual_time == SaturatingSub(last_block.header.time, first_block.header.time)
        expected_time == TARGET_BLOCK_TIME * ADJUSTMENT_INTERVAL
        scaled == BigDivSmall(
                      BigMulSmall(compact_to_target(last_block.header.difficulty_compact),
                                  Max(actual_time, 1), 0),
                      Max(expected_time, 1), 0)
        target == IF Len(ToBytesBE(scaled)) > HASH_SIZE
                  THEN [i \in 1..HASH_SIZE |-> 255] ELSE scaled
    IN  target_to_compact(target)

\* A variant of adjust_difficulty that keeps the difficulty of the first block
\* between retargets.
adjust_difficulty_first(blocks) ==
    IF Len(blocks) < ADJUSTMENT_INTERVAL \/ Len(blocks) % ADJUSTMENT_INTERVAL # 0
    THEN blocks[1].header.difficulty_compact
    ELSE RetargetCompact(blocks)

adjust_difficulty(blocks) ==
    IF Len(blocks) < ADJUSTMENT_INTERVAL \/ Len(blocks) % ADJUSTMENT_INTERVAL # 0
    THEN latest_block(blocks).header.difficulty_compact
    ELSE RetargetCompact(blocks)

\* A variant of create_block_template that names the hash of the tail's header.
create_block_template_header_hash(blocks, transactions, difficulty_compact, timestamp) ==
    BlockNew(HeaderNew(1, timestamp, difficulty_compact, 0,
                       HashHeader(latest_block(blocks).header),
                       compute_merkle_root(transactions)),
             transactions)

\* A variant of create_block_template that gives every template the Merkle root
\* of the empty list.
create_block_template_empty_root(blocks, transactions, difficulty_compact, timestamp) ==
    BlockNew(HeaderNew(1, timestamp, difficulty_compact, 0,
                       HashBlock(latest_block(blocks)),
                       compute_merkle_root(<<>>)),
             transactions)

\* Blockchain::create_block_template
create_block_template(blocks, transactions, difficulty_compact, timestamp) ==
    BlockNew(HeaderNew(1, timestamp, difficulty_compact, 0,
                       HashBlock(latest_block(blocks)),
                       compute_merkle_root(transactions)),
             transactions)

\* Blockchain::mine_new_block: a template at the current difficulty, mined (nonce
\* -1 where mine_block does not return).
mine_new_block(blocks, transactions, timestamp) ==
    LET block == create_block_template(blocks, transactions, adjust_difficulty(blocks),
                                       timestamp)
    IN  BlockNew(mine_block(block.header), block.transactions)

\* A variant of validate_with_options in which skip_pow skips the Merkle root
\* as well.
validate_with_options_skip_all(blocks, skip_pow) ==
    \A i \in 1..Len(blocks) :
        /\ i > 1 => blocks[i].header.prev_hash = HashBlock(blocks[i - 1])
        /\ skip_pow \/ validate_merkle_root(blocks[i])
        /\ skip_pow \/ validate_pow(blocks[i].header)

\* Blockchain::validate_with_options: the loop returns false at the first block
\* that fails a check, so it returns true when no block fails one.
validate_with_options(blocks, skip_pow) ==
    \A i \in 1..Len(blocks) :
        /\ i > 1 => blocks[i].header.prev_hash = HashBlock(blocks[i - 1])
        /\ validate_merkle_root(blocks[i])
        /\ skip_pow \/ validate_pow(blocks[i].header)

\* Blockchain::validate
validate(blocks) == validate_with_options(blocks, FALSE)

\* ------------------------------------------------------------------ mempool

\* Mempool::remove_tx: every transaction with the hash of tx removed.
remove_tx(txs, tx) == SelectSeq(txs, LAMBDA e : HashTx(e) # HashTx(tx))

RECURSIVE RemoveAll(_, _)
\* submit_block's loop over the accepted block's transactions.
RemoveAll(txs, block_txs) ==
    IF block_txs = <<>> THEN txs
    ELSE RemoveAll(remove_tx(txs, Head(block_txs)), Tail(block_txs))

\* A variant of get_next_transaction that drains the newest transactions, from
\* the back of the pool.
get_next_transaction_back(txs, n) ==
    LET count == Min(n, Len(txs))
    IN  [taken |-> Drop(txs, Len(txs) - count), left |-> SubSeq(txs, 1, Len(txs) - count)]

\* Mempool::get_next_transaction(n): the drained transactions (unwrap_or_default
\* of the Option, so the empty list for None) and what stays in the pool.
get_next_transaction(txs, n) ==
    LET count == Min(n, Len(txs))
    IN  [taken |-> SubSeq(txs, 1, count), left |-> Drop(txs, count)]

\* hex::encode and hex::decode: two digits per byte.
HexEncode(bytes) ==
    [i \in 1..(2 * Len(bytes)) |->
        IF i % 2 = 1 THEN bytes[(i + 1) \div 2] \div 16 ELSE bytes[i \div 2] % 16]

HexDecode(digits) ==
    IF Len(digits) % 2 # 0 THEN Fail
    ELSE [ok |-> TRUE,
          val |-> [i \in 1..(Len(digits) \div 2) |-> 16 * digits[2 * i - 1] + digits[2 * i]],
          rest |-> <<>>]

\* --------------------------------------------------------------------- node

VARIABLES
    chain,            \* NodeState.chain: the blocks of the Blockchain
    mempool,          \* NodeState.mempool: Mempool.txs
    disk,             \* blockchain.dat: the chain last saved
    chain_writer,     \* the handler holding chain.write(), or 0
    chain_readers,    \* the handlers holding chain.read()
    mempool_writer,   \* the handler holding mempool.write(), or 0
    mempool_readers,  \* the handlers holding mempool.read()
    rpc_pc,           \* where each client's request is in its handler
    rpc_method,       \* the method each client called
    rpc_block,        \* submit_block: the decoded block
    rpc_result,       \* the response, once rpc_pc is "done"
    submits,          \* submit_block calls made
    queries           \* other calls made

node_vars == <<chain, mempool, disk, chain_writer, chain_readers, mempool_writer,
               mempool_readers, rpc_pc, rpc_method, rpc_block, rpc_result,
               submits, queries>>

VARIABLES
    bc,       \* Blockchain.blocks of a chain driven through add_block alone
    bc_call   \* the last add_block call: its arguments, the chain before, the result

chain_vars == <<bc, bc_call>>

VARIABLES
    co_pc,               \* where start_mining is
    co_ctx,              \* the call of get_and_distribute_work in progress
    co_result,           \* the MiningResult whose block is being submitted
    running,             \* SoloMiner.running
    solution_found,      \* SoloMiner.solution_found, shared with every work item
    cancel,              \* the watch channels created so far: value, sender dropped
    cancel_tx,           \* SoloMiner.cancel_tx: the channel it sends on, 0 for None
    work_counter,        \* SoloMiner.work_counter
    blocks_found,        \* MiningStats.blocks_found
    last_submit,         \* how the last submit_block call ended
    template_stale,      \* last_template_time.elapsed() > 60 s
    select_elapsed,      \* time since the select! in progress created its sleeps
    fetch_failures,      \* template requests the node has failed
    last_fetch,          \* how the last get_and_distribute_work ended
    work_rx,             \* per worker: the work items in its channel
    result_rx,           \* the results in the result channel
    w_pc,                \* where each worker task is
    w_running,           \* MiningWorker.running
    current_work_id,     \* MiningWorker.current_work_id
    w_work,              \* mine_work: its WorkItem
    w_batch_start,       \* mine_work: batch_start
    w_result,            \* the MiningResult a worker is sending, with the work_id and
                         \* the cancel channel of the item it was mined from
    submitted            \* the work_id of every submit_block call made, in order

miner_vars == <<co_pc, co_ctx, co_result, running, solution_found, cancel, cancel_tx,
                work_counter, blocks_found, last_submit, template_stale, select_elapsed,
                fetch_failures, last_fetch, work_rx, result_rx, w_pc, w_running,
                current_work_id, w_work, w_batch_start, w_result, submitted>>

VARIABLES
    fn_call   \* the last call of a function taken on its own: arguments and result

call_vars == <<fn_call>>

\* What the node's handlers, add_block on bc and the miner leave alone.
outside_node == <<chain_vars, miner_vars, call_vars>>
outside_chain == <<node_vars, miner_vars, call_vars>>
outside_miner == <<node_vars, chain_vars, call_vars>>
outside_call == <<node_vars, chain_vars, miner_vars>>

Clients == 1..NumClients

\* main(): generate_random_tx(i), a transaction of its own for every seed.
TestTx(i) == [inputs |-> << <<i>> >>, outputs |-> << <<i>> >>]

InitialMempool == [i \in 1..NumTestTx |-> TestTx(i)]

NoBlock == <<>>
NoResult == [kind |-> "none"]

NodeInit ==
    /\ chain = new_with_genesis
    /\ mempool = InitialMempool
    /\ disk = <<>>
    /\ chain_writer = 0
    /\ chain_readers = {}
    /\ mempool_writer = 0
    /\ mempool_readers = {}
    /\ rpc_pc = [c \in Clients |-> "idle"]
    /\ rpc_method = [c \in Clients |-> "none"]
    /\ rpc_block = [c \in Clients |-> NoBlock]
    /\ rpc_result = [c \in Clients |-> NoResult]
    /\ submits = 0
    /\ queries = 0

\* A block on the given tail with the Merkle root of its transactions, mined
\* at the genesis difficulty.
MinedOn(prev, merkle_root, txs) ==
    BlockNew(mine_block(HeaderNew(1, 1, GENESIS_COMPACT, 0, prev, merkle_root)), txs)

\* The blocks a caller may offer on the chain it sees:
\*   sound blocks carrying a prefix of the test transactions;
\*   a block at the hard difficulty, whose header never meets its target;
\*   blocks whose prev_hash is [1; 32] or the hash of the tail's header alone;
\*   a block whose merkle_root is [1; 32].
CandidateBlocks(blocks) ==
    LET tail == latest_block(blocks)
        NoTxRoot == compute_merkle_root(<<>>)
    IN  { MinedOn(HashBlock(tail), compute_merkle_root(SubSeq(InitialMempool, 1, k)),
                  SubSeq(InitialMempool, 1, k)) : k \in 0..NumTestTx }
        \cup { BlockNew(HeaderNew(1, 1, HARD_COMPACT, 0, HashBlock(tail), NoTxRoot), <<>>),
               MinedOn(ConstHash(1), NoTxRoot, <<>>),
               MinedOn(HashHeader(tail.header), NoTxRoot, <<>>),
               MinedOn(HashBlock(tail), ConstHash(1), <<>>) }

\* What a client may send as block_hex: candidate blocks, and bytes that are no block.
SubmitInputs(blocks) ==
    { HexEncode(SerializeBlock(b)) : b \in CandidateBlocks(blocks) } \cup { HexEncode(<<1>>) }

\* handlers::submit_block up to chain.write(): the parameter decoded.
CallSubmitBlock(c, block_hex) ==
    /\ rpc_pc[c] = "idle"
    /\ submits < MaxSubmits
    /\ submits' = submits + 1
    /\ rpc_method' = [rpc_method EXCEPT ![c] = "submit_block"]
    /\ LET bytes == HexDecode(block_hex)
           block == IF bytes.ok THEN BlockFromBytes(bytes.val) ELSE Fail
       IN  IF block.ok
           THEN /\ rpc_pc' = [rpc_pc EXCEPT ![c] = "sb_chain"]
                /\ rpc_block' = [rpc_block EXCEPT ![c] = block.val]
                /\ rpc_result' = rpc_result
           ELSE /\ rpc_pc' = [rpc_pc EXCEPT ![c] = "done"]
                /\ rpc_block' = rpc_block
                /\ rpc_result' = [rpc_result EXCEPT ![c] =
                                     [kind |-> "error", message |-> "invalid_params"]]
    /\ UNCHANGED outside_node
    /\ UNCHANGED <<chain, mempool, disk, chain_writer, chain_readers, mempool_writer,
                   mempool_readers, queries>>

\* A variant of SubmitAddBlock that answers a rejected block with a JSON-RPC
\* error.
SubmitAddBlockRpcError(c) ==
    /\ rpc_pc[c] = "sb_chain"
    /\ chain_writer = 0
    /\ chain_readers = {}
    /\ ~add_block_panics(chain, rpc_block[c], FALSE)
    /\ LET r == add_block(chain, rpc_block[c], FALSE)
       IN  IF r.result = "Ok"
           THEN /\ chain' = r.blocks
                /\ chain_writer' = c
                /\ rpc_pc' = [rpc_pc EXCEPT ![c] = "sb_mempool"]
                /\ rpc_result' = rpc_result
           ELSE /\ chain' = r.blocks
                /\ chain_writer' = 0
                /\ rpc_pc' = [rpc_pc EXCEPT ![c] = "done"]
                /\ rpc_result' = [rpc_result EXCEPT ![c] =
                                     [kind |-> "error", message |-> r.result]]
    /\ UNCHANGED outside_node
    /\ UNCHANGED <<mempool, disk, chain_readers, mempool_writer, mempool_readers,
                   rpc_method, rpc_block, submits, queries>>

\* A variant of SubmitAddBlock that gives chain.write() back before the
\* mempool is written.
SubmitAddBlockReleasing(c) ==
    /\ rpc_pc[c] = "sb_chain"
    /\ chain_writer = 0
    /\ chain_readers = {}
    /\ ~add_block_panics(chain, rpc_block[c], FALSE)
    /\ LET r == add_block(chain, rpc_block[c], FALSE)
       IN  IF r.result = "Ok"
           THEN /\ chain' = r.blocks
                /\ chain_writer' = 0
                /\ rpc_pc' = [rpc_pc EXCEPT ![c] = "sb_mempool"]
                /\ rpc_result' = rpc_result
           ELSE /\ chain' = r.blocks
                /\ chain_writer' = 0
                /\ rpc_pc' = [rpc_pc EXCEPT ![c] = "done"]
                /\ rpc_result' = [rpc_result EXCEPT ![c] =
                                     [kind |-> "submit", accepted |-> FALSE,
                                      message |-> r.result]]
    /\ UNCHANGED outside_node
    /\ UNCHANGED <<mempool, disk, chain_readers, mempool_writer, mempool_readers,
                   rpc_method, rpc_block, submits, queries>>

\* submit_block: chain.write() acquired and add_block(block, false) called; a
\* rejected block is answered at once, an accepted one goes on to mempool.write().
SubmitAddBlock(c) ==
    /\ rpc_pc[c] = "sb_chain"
    /\ chain_writer = 0
    /\ chain_readers = {}
    /\ ~add_block_panics(chain, rpc_block[c], FALSE)
    /\ LET r == add_block(chain, rpc_block[c], FALSE)
       IN  IF r.result = "Ok"
           THEN /\ chain' = r.blocks
                /\ chain_writer' = c
                /\ rpc_pc' = [rpc_pc EXCEPT ![c] = "sb_mempool"]
                /\ rpc_result' = rpc_result
           ELSE /\ chain' = r.blocks
                /\ chain_writer' = 0
                /\ rpc_pc' = [rpc_pc EXCEPT ![c] = "done"]
                /\ rpc_result' = [rpc_result EXCEPT ![c] =
                                     [kind |-> "submit", accepted |-> FALSE,
                                      message |-> r.result]]
    /\ UNCHANGED outside_node
    /\ UNCHANGED <<mempool, disk, chain_readers, mempool_writer, mempool_readers,
                   rpc_method, rpc_block, submits, queries>>

\* A variant of SubmitFinish that takes the block off the chain again and
\* answers accepted:false when the chain could not be saved.
SubmitFinishRollback(c) ==
    /\ rpc_pc[c] = "sb_mempool"
    /\ mempool_writer = 0
    /\ mempool_readers = {}
    /\ \E saved \in BOOLEAN :
          /\ disk' = IF saved THEN chain ELSE disk
          /\ chain' = IF saved THEN chain ELSE SubSeq(chain, 1, Len(chain) - 1)
          /\ mempool' = IF saved THEN RemoveAll(mempool, rpc_block[c].transactions)
                        ELSE mempool
          /\ rpc_result' = [rpc_result EXCEPT ![c] =
                               [kind |-> "submit", accepted |-> saved, message |-> "None"]]
    /\ chain_writer' = 0
    /\ rpc_pc' = [rpc_pc EXCEPT ![c] = "done"]
    /\ UNCHANGED outside_node
    /\ UNCHANGED <<chain_readers, mempool_writer, mempool_readers, rpc_method,
                   rpc_block, submits, queries>>

\* A variant of SubmitFinish that returns without dropping its chain.write()
\* guard.
SubmitFinishKeepsLock(c) ==
    /\ rpc_pc[c] = "sb_mempool"
    /\ mempool_writer = 0
    /\ mempool_readers = {}
    /\ mempool' = RemoveAll(mempool, rpc_block[c].transactions)
    /\ \E saved \in BOOLEAN : disk' = IF saved THEN chain ELSE disk
    /\ rpc_pc' = [rpc_pc EXCEPT ![c] = "done"]
    /\ rpc_result' = [rpc_result EXCEPT ![c] =
                         [kind |-> "submit", accepted |-> TRUE, message |-> "None"]]
    /\ UNCHANGED outside_node
    /\ UNCHANGED <<chain, chain_writer, chain_readers, mempool_writer, mempool_readers,
                   rpc_method, rpc_block, submits, queries>>

\* submit_block after an accepted block: mempool.write() acquired, the block's
\* transactions removed, the chain saved (the write may fail), both locks released.
SubmitFinish(c) ==
    /\ rpc_pc[c] = "sb_mempool"
    /\ mempool_writer = 0
    /\ mempool_readers = {}
    /\ mempool' = RemoveAll(mempool, rpc_block[c].transactions)
    /\ \E saved \in BOOLEAN : disk' = IF saved THEN chain ELSE disk
    /\ chain_writer' = 0
    /\ rpc_pc' = [rpc_pc EXCEPT ![c] = "done"]
    /\ rpc_result' = [rpc_result EXCEPT ![c] =
                         [kind |-> "submit", accepted |-> TRUE, message |-> "None"]]
    /\ UNCHANGED outside_node
    /\ UNCHANGED <<chain, chain_readers, mempool_writer, mempool_readers, rpc_method,
                   rpc_block, submits, queries>>

\* A call of get_block_template, get_mining_info, get_blockchain_info or
\* get_block_count: the handler starts and waits for chain.read().
QueryMethods == {"get_block_template", "get_mining_info", "get_blockchain_info",
                 "get_block_count"}

CallQuery(c, method) ==
    /\ rpc_pc[c] = "idle"
    /\ queries < MaxQueries
    /\ queries' = queries + 1
    /\ rpc_method' = [rpc_method EXCEPT ![c] = method]
    /\ rpc_pc' = [rpc_pc EXCEPT ![c] = "q_chain"]
    /\ UNCHANGED outside_node
    /\ UNCHANGED <<chain, mempool, disk, chain_writer, chain_readers, mempool_writer,
                   mempool_readers, rpc_block, rpc_result, submits>>

\* chain.read() acquired.  get_blockchain_info and get_block_count answer and
\* release it; the other two go on to the mempool lock.
QueryChainRead(c) ==
    /\ rpc_pc[c] = "q_chain"
    /\ chain_writer = 0
    /\ IF rpc_method[c] \in {"get_block_template", "get_mining_info"}
       THEN /\ chain_readers' = chain_readers \cup {c}
            /\ rpc_pc' = [rpc_pc EXCEPT ![c] = "q_mempool"]
            /\ rpc_result' = rpc_result
       ELSE /\ chain_readers' = chain_readers
            /\ rpc_pc' = [rpc_pc EXCEPT ![c] = "done"]
            /\ rpc_result' = [rpc_result EXCEPT ![c] =
                 IF rpc_method[c] = "get_block_count"
                 THEN [kind |-> "count", height |-> Len(chain) - 1]
                 ELSE [kind |-> "chain_info", blocks |-> Len(chain),
                       best_blockhash |-> HexEncode(HashBlock(latest_block(chain))),
                       difficulty |-> adjust_difficulty(chain),
                       median_time |-> latest_block(chain).header.time]]
    /\ UNCHANGED outside_node
    /\ UNCHANGED <<chain, mempool, disk, chain_writer, mempool_writer, mempool_readers,
                   rpc_method, rpc_block, submits, queries>>

\* A variant of GetBlockTemplate that names the hash of the tail's header as
\* previous_block_hash.
GetBlockTemplateHeaderHash(c, timestamp) ==
    /\ rpc_pc[c] = "q_mempool"
    /\ rpc_method[c] = "get_block_template"
    /\ mempool_writer = 0
    /\ mempool_readers = {}
    /\ LET next == get_next_transaction(mempool, TEMPLATE_TX_LIMIT)
       IN  /\ mempool' = next.left
           /\ rpc_result' = [rpc_result EXCEPT ![c] =
                [kind |-> "template",
                 version |-> 1,
                 previous_block_hash |-> HexEncode(HashHeader(latest_block(chain).header)),
                 transactions |-> next.taken,
                 difficulty_compact |-> adjust_difficulty(chain),
                 timestamp |-> timestamp,
                 height |-> Len(chain),
                 merkle_root |-> HexEncode(compute_merkle_root(next.taken))]]
    /\ chain_readers' = chain_readers \ {c}
    /\ rpc_pc' = [rpc_pc EXCEPT ![c] = "done"]
    /\ UNCHANGED outside_node
    /\ UNCHANGED <<chain, disk, chain_writer, mempool_writer, mempool_readers,
                   rpc_method, rpc_block, submits, queries>>

\* handlers::get_block_template under chain.read() and mempool.write(): up to
\* TEMPLATE_TX_LIMIT transactions drained, the template built, the locks released.
GetBlockTemplate(c, timestamp) ==
    /\ rpc_pc[c] = "q_mempool"
    /\ rpc_method[c] = "get_block_template"
    /\ mempool_writer = 0
    /\ mempool_readers = {}
    /\ LET next == get_next_transaction(mempool, TEMPLATE_TX_LIMIT)
       IN  /\ mempool' = next.left
           /\ rpc_result' = [rpc_result EXCEPT ![c] =
                [kind |-> "template",
                 version |-> 1,
                 previous_block_hash |-> HexEncode(HashBlock(latest_block(chain))),
                 transactions |-> next.taken,
                 difficulty_compact |-> adjust_difficulty(chain),
                 timestamp |-> timestamp,
                 height |-> Len(chain),
                 merkle_root |-> HexEncode(compute_merkle_root(next.taken))]]
    /\ chain_readers' = chain_readers \ {c}
    /\ rpc_pc' = [rpc_pc EXCEPT ![c] = "done"]
    /\ UNCHANGED outside_node
    /\ UNCHANGED <<chain, disk, chain_writer, mempool_writer, mempool_readers,
                   rpc_method, rpc_block, submits, queries>>

\* handlers::get_mining_info under chain.read() and mempool.read().
GetMiningInfo(c) ==
    /\ rpc_pc[c] = "q_mempool"
    /\ rpc_method[c] = "get_mining_info"
    /\ mempool_writer = 0
    /\ rpc_result' = [rpc_result EXCEPT ![c] =
         [kind |-> "mining_info", blocks |-> Len(chain),
          difficulty |-> adjust_difficulty(chain), pooled_tx |-> Len(mempool)]]
    /\ chain_readers' = chain_readers \ {c}
    /\ rpc_pc' = [rpc_pc EXCEPT ![c] = "done"]
    /\ UNCHANGED outside_node
    /\ UNCHANGED <<chain, mempool, disk, chain_writer, mempool_writer, mempool_readers,
                   rpc_method, rpc_block, submits, queries>>

\* The client reads its response; it may call again.
TakeResponse(c) ==
    /\ rpc_pc[c] = "done"
    /\ rpc_pc' = [rpc_pc EXCEPT ![c] = "idle"]
    /\ rpc_method' = [rpc_method EXCEPT ![c] = "none"]
    /\ rpc_block' = [rpc_block EXCEPT ![c] = NoBlock]
    /\ rpc_result' = [rpc_result EXCEPT ![c] = NoResult]
    /\ UNCHANGED outside_node
    /\ UNCHANGED <<chain, mempool, disk, chain_writer, chain_readers, mempool_writer,
                   mempool_readers, submits, queries>>

NodeNext ==
    \E c \in Clients :
        \/ \E block_hex \in SubmitInputs(chain) : CallSubmitBlock(c, block_hex)
        \/ SubmitAddBlock(c)
        \/ SubmitFinish(c)
        \/ \E method \in QueryMethods : CallQuery(c, method)
        \/ QueryChainRead(c)
        \/ \E timestamp \in {1} : GetBlockTemplate(c, timestamp)
        \/ GetMiningInfo(c)
        \/ TakeResponse(c)

\* The steps of client c's handler once it is called: each waits for a lock.
HandlerStep(c) ==
    \/ SubmitAddBlock(c)
    \/ SubmitFinish(c)
    \/ QueryChainRead(c)
    \/ \E timestamp \in {1} : GetBlockTemplate(c, timestamp)
    \/ GetMiningInfo(c)

\* The node serving templates alone, from a mempool of any size up to MaxPool:
\* what is left of main's test transactions after blocks were accepted.
NodePoolInit ==
    /\ \E k \in 0..MaxPool : mempool = [i \in 1..k |-> TestTx(i)]
    /\ chain = new_with_genesis
    /\ disk = <<>>
    /\ chain_writer = 0
    /\ chain_readers = {}
    /\ mempool_writer = 0
    /\ mempool_readers = {}
    /\ rpc_pc = [c \in Clients |-> "idle"]
    /\ rpc_method = [c \in Clients |-> "none"]
    /\ rpc_block = [c \in Clients |-> NoBlock]
    /\ rpc_result = [c \in Clients |-> NoResult]
    /\ submits = 0
    /\ queries = 0

PoolNext ==
    \E c \in Clients :
        \/ CallQuery(c, "get_block_template")
        \/ QueryChainRead(c)
        \/ \E timestamp \in {1} : GetBlockTemplate(c, timestamp)
        \/ TakeResponse(c)

\* ------------------------------------------------- Blockchain, called directly

NoCall == [result |-> "none"]

ChainInit ==
    /\ bc = new_with_genesis
    /\ bc_call = NoCall

\* Blockchain::add_block(block, skip_pow) on bc.
AddBlock(block, skip_pow) ==
    /\ Len(bc) < MaxBlocks
    /\ LET r == add_block(bc, block, skip_pow)
       IN  /\ bc' = r.blocks
           /\ bc_call' = [result |-> r.result, block |-> block, skip_pow |-> skip_pow,
                          before |-> bc]
    /\ UNCHANGED outside_chain

\* Blocks that fail more than one of add_block's checks: the Merkle root
\* [1; 32] on the right tail at a difficulty the header does not meet, and on
\* the tail [1; 32] with a header that meets its target and with one that does
\* not.
FaultyBlocks(blocks) ==
    LET tail == latest_block(blocks)
    IN  { BlockNew(HeaderNew(1, 1, HARD_COMPACT, 0, HashBlock(tail), ConstHash(1)), <<>>),
          MinedOn(ConstHash(1), ConstHash(1), <<>>),
          BlockNew(HeaderNew(1, 1, HARD_COMPACT, 0, ConstHash(1), ConstHash(1)),
                   <<TestTx(1)>>) }

ChainNext ==
    \E block \in CandidateBlocks(bc) \cup FaultyBlocks(bc), skip_pow \in BOOLEAN :
        AddBlock(block, skip_pow)

\* What a caller passes to create_block_template.
TemplateInputs ==
    { [transactions |-> txs, difficulty_compact |-> d, timestamp |-> t] :
        txs \in {<<>>, <<TestTx(1)>>, <<TestTx(2), TestTx(1), TestTx(3)>>},
        d \in {GENESIS_COMPACT, HARD_COMPACT},
        t \in {0, 7} }

\* Blockchain::create_block_template on bc (it takes &self): one call in a
\* behaviour, on the chain as add_block has left it.
CreateBlockTemplate(transactions, difficulty_compact, timestamp) ==
    /\ fn_call = [fn |-> "none"]
    /\ fn_call' = [fn |-> "create_block_template",
                   blocks |-> bc,
                   transactions |-> transactions,
                   difficulty_compact |-> difficulty_compact,
                   timestamp |-> timestamp,
                   result |-> create_block_template(bc, transactions, difficulty_compact,
                                                    timestamp)]
    /\ UNCHANGED <<bc, bc_call>>
    /\ UNCHANGED <<node_vars, miner_vars>>

TemplateNext ==
    \/ ChainNext
    \/ \E input \in TemplateInputs :
          CreateBlockTemplate(input.transactions, input.difficulty_compact, input.timestamp)

\* What a caller passes to mine_new_block.
MineInputs ==
    { [transactions |-> <<>>, timestamp |-> 0],
      [transactions |-> <<TestTx(1)>>, timestamp |-> 3000] }

\* mine_new_block on bc, once it has returned, and add_block(block, false).
MineNewBlock(transactions, timestamp) ==
    /\ Len(bc) < MaxMined
    /\ LET block == mine_new_block(bc, transactions, timestamp)
           r == add_block(bc, block, FALSE)
       IN  /\ block.header.nonce >= 0
           /\ bc' = r.blocks
           /\ bc_call' = [result |-> r.result, block |-> block, skip_pow |-> FALSE,
                          before |-> bc]
    /\ UNCHANGED outside_chain

MineNext ==
    \E input \in MineInputs : MineNewBlock(input.transactions, input.timestamp)

\* --------------------------------------------------------------------- miner

Workers == 0..(NumWorkers - 1)

\* u64::MAX at the modelled nonce width.
NONCE_MAX == 2 ^ NonceBits - 1

NoWork == [work_id |-> -1]
NoMiningResult == [worker_id |-> -1]

MinerInit ==
    /\ co_pc = "new"
    /\ co_ctx = "none"
    /\ co_result = NoMiningResult
    /\ running = FALSE
    /\ solution_found = FALSE
    /\ cancel = <<>>
    /\ cancel_tx = 0
    /\ work_counter = 0
    /\ blocks_found = 0
    /\ last_submit = "none"
    /\ template_stale = FALSE
    /\ select_elapsed = 0
    /\ fetch_failures = 0
    /\ last_fetch = "none"
    /\ work_rx = [w \in Workers |-> <<>>]
    /\ result_rx = <<>>
    /\ w_pc = [w \in Workers |-> "new"]
    /\ w_running = [w \in Workers |-> FALSE]
    /\ current_work_id = [w \in Workers |-> 0]
    /\ w_work = [w \in Workers |-> NoWork]
    /\ w_batch_start = [w \in Workers |-> 0]
    /\ w_result = [w \in Workers |-> NoMiningResult]
    /\ submitted = <<>>

\* The node as the miner sees it: the templates it may answer with, for the
\* genesis chain at the genesis difficulty and at the hard one.
Template(d) ==
    LET b == create_block_template(new_with_genesis, <<>>, d, 1)
    IN  [version |-> b.header.version,
         previous_block_hash |-> HexEncode(b.header.prev_hash),
         transactions |-> b.transactions,
         difficulty_compact |-> d,
         timestamp |-> 1,
         height |-> 1,
         merkle_root |-> HexEncode(b.header.merkle_root)]

NodeTemplates == { Template(d) : d \in {GENESIS_COMPACT, HARD_COMPACT} }

\* A template whose previous_block_hash is no hex string.
BadHexTemplate == [Template(GENESIS_COMPACT) EXCEPT !.previous_block_hash = <<1>>]

\* cancel_tx.send(true) on the channel the coordinator holds, if any.
CancelSent(chans, tx) ==
    IF tx = 0 THEN chans ELSE [chans EXCEPT ![tx].value = TRUE]

\* get_and_distribute_work up to its request to the node: solution_found reset,
\* the old work cancelled, a new watch channel made (the old sender is dropped),
\* get_block_template called.
BeginWork(ctx) ==
    /\ solution_found' = FALSE
    /\ cancel' = LET sent == CancelSent(cancel, cancel_tx)
                     dropped == IF cancel_tx = 0 THEN sent
                                ELSE [sent EXCEPT ![cancel_tx].closed = TRUE]
                 IN  Append(dropped, [value |-> FALSE, closed |-> FALSE])
    /\ cancel_tx' = Len(cancel) + 1
    /\ co_ctx' = ctx
    /\ co_pc' = "fetch"

\* start_mining up to the first template request: the workers spawned, then
\* get_and_distribute_work.
StartMining ==
    /\ co_pc = "new"
    /\ running' = TRUE
    /\ w_pc' = [w \in Workers |-> "spawned"]
    /\ BeginWork("initial")
    /\ UNCHANGED <<co_result, work_counter, blocks_found, last_submit,
                   template_stale, select_elapsed,
                   fetch_failures, last_fetch, work_rx, result_rx, w_running,
                   current_work_id, w_work, w_batch_start, w_result, submitted>>
    /\ UNCHANGED outside_miner

\* A variant of WorkRanges with the width rounded up.
WorkRangesRoundedUp(n) ==
    LET nonce_range_per_worker == NONCE_MAX \div n + 1
    IN  [i \in 0..(n - 1) |->
            [nonce_start |-> (i * nonce_range_per_worker) % (NONCE_MAX + 1),
             nonce_range |-> nonce_range_per_worker]]

\* get_and_distribute_work: nonce_start and nonce_range of the item of each of
\* n workers, in u64 arithmetic.
WorkRanges(n) ==
    LET nonce_range_per_worker == NONCE_MAX \div n
    IN  [i \in 0..(n - 1) |->
            [nonce_start |-> (i * nonce_range_per_worker) % (NONCE_MAX + 1),
             nonce_range |-> nonce_range_per_worker]]

\* A variant of WorkItems that numbers the items of one template one by one.
WorkItemsNumbered(template, work_id, chan) ==
    LET header == HeaderNew(template.version, template.timestamp,
                            template.difficulty_compact, 0,
                            HexDecode(template.previous_block_hash).val,
                            HexDecode(template.merkle_root).val)
    IN  [w \in Workers |->
            [header |-> header,
             nonce_start |-> WorkRanges(NumWorkers)[w].nonce_start,
             nonce_range |-> WorkRanges(NumWorkers)[w].nonce_range,
             transactions |-> template.transactions,
             work_id |-> work_id + w,
             cancel_rx |-> chan]]

\* The work items get_and_distribute_work sends for a template.
WorkItems(template, work_id, chan) ==
    LET header == HeaderNew(template.version, template.timestamp,
                            template.difficulty_compact, 0,
                            HexDecode(template.previous_block_hash).val,
                            HexDecode(template.merkle_root).val)
    IN  [w \in Workers |->
            [header |-> header,
             nonce_start |-> WorkRanges(NumWorkers)[w].nonce_start,
             nonce_range |-> WorkRanges(NumWorkers)[w].nonce_range,
             transactions |-> template.transactions,
             work_id |-> work_id,
             cancel_rx |-> chan]]

\* A variant of AfterFetchError: the error of get_and_distribute_work
\* propagated with ? from every call.
AfterFetchErrorPropagated ==
    /\ last_fetch' = "failed"
    /\ co_pc' = "returned_err"
    /\ select_elapsed' = 0
    /\ UNCHANGED <<work_rx, template_stale>>

\* Where start_mining goes when get_and_distribute_work returns Err: out of the
\* function from the initial call, back to the loop from the result branch, to
\* the reconnect sleep from the staleness branch.
AfterFetchError ==
    /\ last_fetch' = "failed"
    /\ co_pc' = CASE co_ctx = "initial" -> "returned_err"
                  [] co_ctx = "result" -> "select"
                  [] OTHER -> "reconnect_sleep"
    /\ select_elapsed' = 0
    /\ UNCHANGED <<work_rx, template_stale>>

\* What the node may answer to get_block_template: a template, one whose hash
\* does not decode, or nothing (a transport or HTTP error).
NodeAnswers ==
    { [kind |-> "template", template |-> t] : t \in NodeTemplates \cup {BadHexTemplate} }
        \cup { [kind |-> "transport"] }

Decodes(answer) ==
    /\ answer.kind = "template"
    /\ HexDecode(answer.template.previous_block_hash).ok
    /\ HexDecode(answer.template.merkle_root).ok

\* The node's answer to get_block_template reaches get_and_distribute_work.
\* A transport error is returned at once; otherwise work_counter is incremented,
\* and then either a decode error is returned or one item is sent to each worker.
FetchResponds(answer) ==
    /\ co_pc = "fetch"
    /\ answer.kind = "template" => work_counter < MaxFetches
    /\ ~Decodes(answer) => fetch_failures < MaxFetchFailures
    /\ fetch_failures' = IF Decodes(answer) THEN fetch_failures ELSE fetch_failures + 1
    /\ work_counter' = IF answer.kind = "template" THEN work_counter + 1 ELSE work_counter
    /\ IF Decodes(answer)
       THEN /\ \A w \in Workers : Len(work_rx[w]) < CHANNEL_CAPACITY
            /\ work_rx' = [w \in Workers |->
                              Append(work_rx[w],
                                     WorkItems(answer.template, work_counter, cancel_tx)[w])]
            /\ last_fetch' = "ok"
            /\ template_stale' = FALSE
            /\ select_elapsed' = 0
            /\ co_pc' = "select"
       ELSE AfterFetchError
    /\ UNCHANGED <<co_ctx, co_result, running, solution_found, cancel, cancel_tx,
                   blocks_found, last_submit,
                   result_rx, w_pc, w_running, current_work_id, w_work,
                   w_batch_start, w_result, submitted>>
    /\ UNCHANGED outside_miner

\* A variant of ReceiveResult that calls submit_block before anything is
\* cancelled.
ReceiveResultSubmitFirst ==
    /\ co_pc = "select"
    /\ result_rx # <<>>
    /\ co_result' = Head(result_rx)
    /\ result_rx' = Tail(result_rx)
    /\ submitted' = Append(submitted, Head(result_rx).work_id)
    /\ co_pc' = "submit"
    /\ UNCHANGED <<co_ctx, running, solution_found, cancel, cancel_tx, work_counter,
                   blocks_found, last_submit,
                   template_stale, select_elapsed, fetch_failures,
                   last_fetch, work_rx, w_pc, w_running, current_work_id, w_work,
                   w_batch_start, w_result>>
    /\ UNCHANGED outside_miner

\* select!, result branch, up to the request to the node: a result received,
\* solution_found set, cancel sent, submit_block called with its block.
ReceiveResult ==
    /\ co_pc = "select"
    /\ result_rx # <<>>
    /\ co_result' = Head(result_rx)
    /\ result_rx' = Tail(result_rx)
    /\ solution_found' = TRUE
    /\ cancel' = CancelSent(cancel, cancel_tx)
    /\ submitted' = Append(submitted, Head(result_rx).work_id)
    /\ co_pc' = "submit"
    /\ UNCHANGED <<co_ctx, running, cancel_tx, work_counter, blocks_found, last_submit,
                   template_stale,
                   select_elapsed, fetch_failures, last_fetch, work_rx, w_pc, w_running,
                   current_work_id, w_work, w_batch_start, w_result>>
    /\ UNCHANGED outside_miner

\* A variant of SubmitResponds that returns the error of a failed submission
\* from start_mining.
SubmitRespondsPropagated(outcome) ==
    /\ co_pc = "submit"
    /\ blocks_found' = IF outcome = "err" THEN blocks_found ELSE blocks_found + 1
    /\ last_submit' = outcome
    /\ co_pc' = IF outcome = "err" THEN "returned_err" ELSE "settle"
    /\ UNCHANGED <<co_ctx, co_result, running, solution_found, cancel, cancel_tx,
                   work_counter, template_stale, select_elapsed, fetch_failures,
                   last_fetch, work_rx, result_rx, w_pc, w_running, current_work_id,
                   w_work, w_batch_start, w_result, submitted>>
    /\ UNCHANGED outside_miner

\* NodeClient::submit_block returns: Ok(true), Ok(false) for a refused block or an
\* RPC error, Err for a transport error.  blocks_found counts every Ok.  Then the
\* 10 ms sleep begins.
SubmitResponds(outcome) ==
    /\ co_pc = "submit"
    /\ blocks_found' = IF outcome = "err" THEN blocks_found ELSE blocks_found + 1
    /\ last_submit' = outcome
    /\ co_pc' = "settle"
    /\ UNCHANGED <<co_ctx, co_result, running, solution_found, cancel, cancel_tx,
                   work_counter, template_stale, select_elapsed, fetch_failures,
                   last_fetch, work_rx, result_rx, w_pc, w_running, current_work_id,
                   w_work, w_batch_start, w_result, submitted>>
    /\ UNCHANGED outside_miner

\* The 10 ms sleep over: get_and_distribute_work called from the result branch.
RestartWork ==
    /\ co_pc = "settle"
    /\ BeginWork("result")
    /\ UNCHANGED <<co_result, running, work_counter, blocks_found, last_submit,
                   template_stale,
                   select_elapsed, fetch_failures, last_fetch, work_rx, result_rx, w_pc,
                   w_running, current_work_id, w_work, w_batch_start, w_result, submitted>>
    /\ UNCHANGED outside_miner

\* 100 ms pass while the coordinator waits in select!.  A sleep that has run out
\* wakes the coordinator before more time passes.
Tick ==
    /\ co_pc = "select"
    /\ select_elapsed < HEARTBEAT_SLEEP
    /\ select_elapsed' = select_elapsed + 1
    /\ UNCHANGED <<co_pc, co_ctx, co_result, running, solution_found, cancel, cancel_tx,
                   work_counter, blocks_found, last_submit,
                   template_stale, fetch_failures, last_fetch,
                   work_rx, result_rx, w_pc, w_running, current_work_id, w_work,
                   w_batch_start, w_result, submitted>>
    /\ UNCHANGED outside_miner

\* More than 60 s have passed since last_template_time was set.
TemplateAges ==
    /\ co_pc \in {"select", "submit", "settle", "fetch"}
    /\ last_fetch # "none"
    /\ ~template_stale
    /\ template_stale' = TRUE
    /\ UNCHANGED <<co_pc, co_ctx, co_result, running, solution_found, cancel, cancel_tx,
                   work_counter, blocks_found, last_submit,
                   select_elapsed, fetch_failures, last_fetch,
                   work_rx, result_rx, w_pc, w_running, current_work_id, w_work,
                   w_batch_start, w_result, submitted>>
    /\ UNCHANGED outside_miner

\* select!, heartbeat branch: sleep(100 ms) completes, the loop goes round and
\* select! creates its two sleeps anew.
HeartbeatFires ==
    /\ co_pc = "select"
    /\ select_elapsed >= HEARTBEAT_SLEEP
    /\ select_elapsed' = 0
    /\ UNCHANGED <<co_pc, co_ctx, co_result, running, solution_found, cancel, cancel_tx,
                   work_counter, blocks_found, last_submit,
                   template_stale, fetch_failures, last_fetch,
                   work_rx, result_rx, w_pc, w_running, current_work_id, w_work,
                   w_batch_start, w_result, submitted>>
    /\ UNCHANGED outside_miner

\* select!, staleness branch: sleep(30 s) completes; a template older than 60 s
\* is fetched anew.
StaleTimerFires ==
    /\ co_pc = "select"
    /\ select_elapsed >= STALE_SLEEP
    /\ IF template_stale
       THEN /\ BeginWork("stale")
            /\ UNCHANGED select_elapsed
       ELSE /\ select_elapsed' = 0
            /\ UNCHANGED <<co_pc, co_ctx, solution_found, cancel, cancel_tx>>
    /\ UNCHANGED <<co_result, running, work_counter, blocks_found, last_submit,
                   template_stale,
                   fetch_failures, last_fetch, work_rx, result_rx, w_pc, w_running,
                   current_work_id, w_work, w_batch_start, w_result, submitted>>
    /\ UNCHANGED outside_miner

\* The staleness branch after a failed fetch: sleep(reconnect_delay) over, the
\* loop goes round.
ReconnectSleepOver ==
    /\ co_pc = "reconnect_sleep"
    /\ co_pc' = "select"
    /\ select_elapsed' = 0
    /\ UNCHANGED <<co_ctx, co_result, running, solution_found, cancel, cancel_tx,
                   work_counter, blocks_found, last_submit,
                   template_stale, fetch_failures, last_fetch,
                   work_rx, result_rx, w_pc, w_running, current_work_id, w_work,
                   w_batch_start, w_result, submitted>>
    /\ UNCHANGED outside_miner

\* What a worker leaves alone.
outside_worker == <<co_pc, co_ctx, co_result, running, solution_found, cancel, cancel_tx,
                    work_counter, blocks_found, last_submit, template_stale, select_elapsed,
                    fetch_failures, last_fetch, submitted>>

\* MiningWorker::start up to its loop: running set.
WorkerStart(w) ==
    /\ w_pc[w] = "spawned"
    /\ w_running' = [w_running EXCEPT ![w] = TRUE]
    /\ w_pc' = [w_pc EXCEPT ![w] = "recv"]
    /\ UNCHANGED <<work_rx, result_rx, current_work_id, w_work, w_batch_start, w_result>>
    /\ UNCHANGED outside_worker
    /\ UNCHANGED outside_miner

\* start, work branch: an item received, current_work_id stored, mine_work
\* entered with batch_start at nonce_start.
WorkerReceive(w) ==
    /\ w_pc[w] = "recv"
    /\ w_running[w]
    /\ work_rx[w] # <<>>
    /\ work_rx' = [work_rx EXCEPT ![w] = Tail(@)]
    /\ current_work_id' = [current_work_id EXCEPT ![w] = Head(work_rx[w]).work_id]
    /\ w_work' = [w_work EXCEPT ![w] = Head(work_rx[w])]
    /\ w_batch_start' = [w_batch_start EXCEPT ![w] = Head(work_rx[w]).nonce_start]
    /\ w_pc' = [w_pc EXCEPT ![w] = "batch"]
    /\ UNCHANGED <<result_rx, w_running, w_result>>
    /\ UNCHANGED outside_worker
    /\ UNCHANGED outside_miner

\* mine_work returns None: the worker is back in its loop.
AbandonWork(w) ==
    /\ w_pc' = [w_pc EXCEPT ![w] = "recv"]
    /\ w_work' = [w_work EXCEPT ![w] = NoWork]
    /\ UNCHANGED <<w_batch_start, w_result>>

\* A variant of WorkerBatchCheck that does not read the cancel channel at the
\* head of a batch.
WorkerBatchCheckNoCancel(w) ==
    /\ w_pc[w] = "batch"
    /\ IF \/ ~w_running[w]
          \/ solution_found
          \/ current_work_id[w] # w_work[w].work_id
       THEN AbandonWork(w)
       ELSE /\ w_pc' = [w_pc EXCEPT ![w] = "scan"]
            /\ UNCHANGED <<w_work, w_batch_start, w_result>>
    /\ UNCHANGED <<work_rx, result_rx, w_running, current_work_id>>
    /\ UNCHANGED outside_worker
    /\ UNCHANGED outside_miner

\* mine_work at the head of a batch: the work is given up when the worker is
\* stopped, the cancel channel holds true, solution_found is set, or
\* current_work_id is another work's.
WorkerBatchCheck(w) ==
    /\ w_pc[w] = "batch"
    /\ IF \/ ~w_running[w]
          \/ cancel[w_work[w].cancel_rx].value
          \/ solution_found
          \/ current_work_id[w] # w_work[w].work_id
       THEN AbandonWork(w)
       ELSE /\ w_pc' = [w_pc EXCEPT ![w] = "scan"]
            /\ UNCHANGED <<w_work, w_batch_start, w_result>>
    /\ UNCHANGED <<work_rx, result_rx, w_running, current_work_id>>
    /\ UNCHANGED outside_worker
    /\ UNCHANGED outside_miner

\* mine_work: one batch hashed.  At the first nonce that meets the target the
\* cancel channel is read again and the block made; a batch without one ends
\* with has_changed() (an error once the sender is dropped, taken as false) and
\* the yield before the next batch.
WorkerScan(w) ==
    /\ w_pc[w] = "scan"
    /\ LET work == w_work[w]
           chan == cancel[work.cancel_rx]
           end_nonce == work.nonce_start + work.nonce_range
           batch_end == Min(w_batch_start[w] + BATCH_SIZE, end_nonce)
           nonce == FirstValidNonce(work.header, w_batch_start[w],
                                    Min(batch_end, w_batch_start[w] + NoncePeriod))
       IN  IF nonce >= 0
           THEN IF chan.value
                THEN AbandonWork(w)
                ELSE /\ w_result' = [w_result EXCEPT ![w] =
                            [block |-> BlockNew([work.header EXCEPT !.nonce = nonce],
                                                work.transactions),
                             nonce |-> nonce,
                             worker_id |-> w,
                             work_id |-> work.work_id,
                             cancel_rx |-> work.cancel_rx]]
                     /\ w_pc' = [w_pc EXCEPT ![w] = "send"]
                     /\ w_work' = [w_work EXCEPT ![w] = NoWork]
                     /\ UNCHANGED w_batch_start
           ELSE IF (~chan.closed /\ chan.value) \/ batch_end >= end_nonce
                THEN AbandonWork(w)
                ELSE /\ w_batch_start' = [w_batch_start EXCEPT ![w] = @ + BATCH_SIZE]
                     /\ w_pc' = [w_pc EXCEPT ![w] = "batch"]
                     /\ UNCHANGED <<w_work, w_result>>
    /\ UNCHANGED <<work_rx, result_rx, w_running, current_work_id>>
    /\ UNCHANGED outside_worker
    /\ UNCHANGED outside_miner

\* The future of start_mining is gone, returned or dropped by main's select!,
\* and with it its locals: work_senders, worker_handles and result_rx.
FutureGone == co_pc \in {"returned_err", "dropped"}

\* start: result_tx.send(result) completes once the channel has room.
WorkerSend(w) ==
    /\ w_pc[w] = "send"
    /\ ~FutureGone
    /\ Len(result_rx) < CHANNEL_CAPACITY
    /\ result_rx' = Append(result_rx, w_result[w])
    /\ w_result' = [w_result EXCEPT ![w] = NoMiningResult]
    /\ w_pc' = [w_pc EXCEPT ![w] = "recv"]
    /\ UNCHANGED <<work_rx, w_running, current_work_id, w_work, w_batch_start>>
    /\ UNCHANGED outside_worker
    /\ UNCHANGED outside_miner

CoordinatorStep ==
    \/ StartMining
    \/ \E answer \in NodeAnswers : FetchResponds(answer)
    \/ ReceiveResult
    \/ \E outcome \in {"accepted", "refused", "err"} : SubmitResponds(outcome)
    \/ RestartWork
    \/ HeartbeatFires

WorkerStep(w) ==
    \/ WorkerStart(w)
    \/ WorkerReceive(w)
    \/ WorkerBatchCheck(w)
    \/ WorkerScan(w)
    \/ WorkerSend(w)

\* The staleness branch of select! is left out of MinerNext: StaleBranchDead
\* below shows that no reachable state enables it.
StaleBranch == StaleTimerFires \/ ReconnectSleepOver

MinerNext ==
    \/ CoordinatorStep
    \/ \E w \in Workers : WorkerStep(w)
    \/ Tick
    \/ TemplateAges

\* ---- the node with clients that mine on the templates they took

\* A transaction as Decode gives it for two empty lists; Transaction::new makes
\* none such.
EmptyTx == [inputs |-> <<>>, outputs |-> <<>>]

\* Blocks on the tail that come from no template of the node: one carrying the
\* first test transaction; one mined at 0x2100ffff, which every digest meets;
\* one carrying EmptyTx; one whose compact 0x40000001 has a target of more than
\* 32 bytes.
ForeignBlocks(blocks) ==
    LET prev == HashBlock(latest_block(blocks))
    IN  { MinedOn(prev, compute_merkle_root(<<TestTx(1)>>), <<TestTx(1)>>),
          BlockNew(mine_block(HeaderNew(1, 1, 553713663, 0, prev,
                                        compute_merkle_root(<<>>))), <<>>),
          MinedOn(prev, compute_merkle_root(<<EmptyTx>>), <<EmptyTx>>),
          BlockNew(HeaderNew(1, 1, 1073741825, 0, prev, compute_merkle_root(<<>>)), <<>>) }

\* What a client sends as block_hex for them.
ForeignInputs(blocks) == { HexEncode(SerializeBlock(b)) : b \in ForeignBlocks(blocks) }

\* The miner on the template client c holds: get_and_distribute_work makes the
\* header of the template's fields with nonce 0, worker w finds the first
\* nonce of its range that meets the target and makes the block of the
\* template's transactions, and NodeClient::submit_block sends its encoding
\* in hex, which the handler decodes.  The client keeps the template.
SubmitTemplateBlock(c, w) ==
    /\ rpc_pc[c] = "done"
    /\ rpc_result[c].kind = "template"
    /\ submits < MaxSubmits
    /\ LET template == rpc_result[c]
           header == HeaderNew(template.version, template.timestamp,
                               template.difficulty_compact, 0,
                               HexDecode(template.previous_block_hash).val,
                               HexDecode(template.merkle_root).val)
           nonce_start == WorkRanges(NumWorkers)[w].nonce_start
           nonce == FirstValidNonce(header, nonce_start, nonce_start + NoncePeriod)
           block == BlockNew([header EXCEPT !.nonce = nonce], template.transactions)
           bytes == HexDecode(HexEncode(SerializeBlock(block)))
       IN  /\ nonce >= 0
           /\ bytes.ok
           /\ BlockFromBytes(bytes.val).ok
           /\ rpc_block' = [rpc_block EXCEPT ![c] = BlockFromBytes(bytes.val).val]
    /\ submits' = submits + 1
    /\ rpc_method' = [rpc_method EXCEPT ![c] = "submit_block"]
    /\ rpc_pc' = [rpc_pc EXCEPT ![c] = "sb_chain"]
    /\ UNCHANGED outside_node
    /\ UNCHANGED <<chain, mempool, disk, chain_writer, chain_readers, mempool_writer,
                   mempool_readers, rpc_result, queries>>

\* submit_block: chain.write() acquired and add_block panics in validate_pow.
\* The handler's task unwinds, which drops the lock guard; the client gets no
\* response.
SubmitAddBlockPanics(c) ==
    /\ rpc_pc[c] = "sb_chain"
    /\ chain_writer = 0
    /\ chain_readers = {}
    /\ add_block_panics(chain, rpc_block[c], FALSE)
    /\ rpc_pc' = [rpc_pc EXCEPT ![c] = "panicked"]
    /\ rpc_result' = [rpc_result EXCEPT ![c] = NoResult]
    /\ UNCHANGED outside_node
    /\ UNCHANGED <<chain, mempool, disk, chain_writer, chain_readers, mempool_writer,
                   mempool_readers, rpc_method, rpc_block, submits, queries>>

ClientNext ==
    \E c \in Clients :
        \/ \E block_hex \in ForeignInputs(chain) : CallSubmitBlock(c, block_hex)
        \/ \E w \in Workers : SubmitTemplateBlock(c, w)
        \/ SubmitAddBlock(c)
        \/ SubmitAddBlockPanics(c)
        \/ SubmitFinish(c)
        \/ CallQuery(c, "get_block_template")
        \/ QueryChainRead(c)
        \/ \E timestamp \in {1} : GetBlockTemplate(c, timestamp)
        \/ TakeResponse(c)

\* ------------------------------------------------------------ miner shutdown

\* main: Ctrl+C while start_mining is pending at one of its awaits.  select!
\* drops the future of start_mining, and with it the work senders, the join
\* handles (the worker tasks are detached) and the result receiver with what it
\* holds; then the branch calls stop(), which clears SoloMiner.running.
CtrlC ==
    /\ co_pc \in {"fetch", "select", "submit", "settle"}
    /\ co_pc' = "dropped"
    /\ running' = FALSE
    /\ result_rx' = <<>>
    /\ UNCHANGED <<co_ctx, co_result, solution_found, cancel, cancel_tx, work_counter,
                   blocks_found, last_submit,
                   template_stale, select_elapsed, fetch_failures,
                   last_fetch, work_rx, w_pc, w_running, current_work_id, w_work,
                   w_batch_start, w_result, submitted>>
    /\ UNCHANGED outside_miner

\* start: work_rx.recv() returns None, every sender dropped and the channel
\* empty; the worker leaves its loop.
WorkerChannelClosed(w) ==
    /\ w_pc[w] = "recv"
    /\ w_running[w]
    /\ work_rx[w] = <<>>
    /\ FutureGone
    /\ w_pc' = [w_pc EXCEPT ![w] = "stopped"]
    /\ UNCHANGED <<work_rx, result_rx, w_running, current_work_id, w_work,
                   w_batch_start, w_result>>
    /\ UNCHANGED outside_worker
    /\ UNCHANGED outside_miner

\* start: result_tx.send(result) fails, the receiver dropped; the worker leaves
\* its loop.
WorkerSendFails(w) ==
    /\ w_pc[w] = "send"
    /\ FutureGone
    /\ w_result' = [w_result EXCEPT ![w] = NoMiningResult]
    /\ w_pc' = [w_pc EXCEPT ![w] = "stopped"]
    /\ UNCHANGED <<work_rx, result_rx, w_running, current_work_id, w_work, w_batch_start>>
    /\ UNCHANGED outside_worker
    /\ UNCHANGED outside_miner

\* main has returned after stop() and the runtime is dropped: a worker task
\* that is at an await (recv, send, or the yield that ends a batch) is dropped
\* there.
RuntimeDropsWorker(w) ==
    /\ co_pc = "dropped"
    /\ \/ w_pc[w] \in {"spawned", "recv", "send"}
       \/ w_pc[w] = "batch" /\ w_batch_start[w] > w_work[w].nonce_start
    /\ w_pc' = [w_pc EXCEPT ![w] = "stopped"]
    /\ w_work' = [w_work EXCEPT ![w] = NoWork]
    /\ w_result' = [w_result EXCEPT ![w] = NoMiningResult]
    /\ UNCHANGED <<work_rx, result_rx, w_running, current_work_id, w_batch_start>>
    /\ UNCHANGED outside_worker
    /\ UNCHANGED outside_miner

\* start_mining, the head of its loop: running is false, the loop is left,
\* every worker is stopped and the work senders are dropped.
LoopExits ==
    /\ co_pc = "select"
    /\ ~running
    /\ co_pc' = "joining"
    /\ w_running' = [w \in Workers |-> FALSE]
    /\ UNCHANGED <<co_ctx, co_result, running, solution_found, cancel, cancel_tx,
                   work_counter, blocks_found, last_submit, template_stale, select_elapsed,
                   fetch_failures, last_fetch, work_rx, result_rx, w_pc,
                   current_work_id, w_work, w_batch_start, w_result, submitted>>
    /\ UNCHANGED outside_miner

\* start_mining: every handle awaited, Ok(()) returned.
JoinWorkers ==
    /\ co_pc = "joining"
    /\ \A w \in Workers : w_pc[w] = "stopped"
    /\ co_pc' = "returned_ok"
    /\ UNCHANGED <<co_ctx, co_result, running, solution_found, cancel, cancel_tx,
                   work_counter, blocks_found, last_submit, template_stale, select_elapsed,
                   fetch_failures, last_fetch, work_rx, result_rx, w_pc, w_running,
                   current_work_id, w_work, w_batch_start, w_result, submitted>>
    /\ UNCHANGED outside_miner

\* start, the head of its loop: the worker's running flag is false.
WorkerLoopExit(w) ==
    /\ w_pc[w] = "recv"
    /\ ~w_running[w]
    /\ w_pc' = [w_pc EXCEPT ![w] = "stopped"]
    /\ UNCHANGED <<work_rx, result_rx, w_running, current_work_id, w_work,
                   w_batch_start, w_result>>
    /\ UNCHANGED outside_worker
    /\ UNCHANGED outside_miner

\* The clean shutdown of start_mining is left out of ShutdownNext:
\* CleanShutdownDead below shows that no reachable state enables it.
CleanShutdown == LoopExits \/ JoinWorkers \/ \E w \in Workers : WorkerLoopExit(w)

WorkerEnds(w) ==
    \/ WorkerChannelClosed(w)
    \/ WorkerSendFails(w)
    \/ RuntimeDropsWorker(w)

ShutdownNext ==
    \/ MinerNext
    \/ CtrlC
    \/ \E w \in Workers : WorkerEnds(w)

\* main returns after the Ctrl+C branch: miner leaves scope, and with it the
\* watch sender in SoloMiner.cancel_tx, which nobody has sent true on; the
\* runtime is shut down after that.
MinerDropped ==
    /\ co_pc = "dropped"
    /\ cancel_tx # 0
    /\ cancel' = [cancel EXCEPT ![cancel_tx].closed = TRUE]
    /\ cancel_tx' = 0
    /\ UNCHANGED <<co_pc, co_ctx, co_result, running, solution_found, work_counter,
                   blocks_found, last_submit, template_stale, select_elapsed,
                   fetch_failures, last_fetch, work_rx, result_rx, w_pc, w_running,
                   current_work_id, w_work, w_batch_start, w_result, submitted>>
    /\ UNCHANGED outside_miner

DropNext ==
    \/ ShutdownNext
    \/ MinerDropped

\* ------------------------------------------------- functions taken on their own

\* No function called yet; each behaviour of CallSpec makes one call.
NoFn == [fn |-> "none"]

CallInit == fn_call = NoFn

\* get_and_distribute_work's split of the nonce space among threads workers.
Distribute(threads) ==
    /\ fn_call = NoFn
    /\ fn_call' = [fn |-> "distribute", threads |-> threads, items |-> WorkRanges(threads)]
    /\ UNCHANGED outside_call

\* A chain of len blocks as add_block(block, true) accepts them on the genesis
\* chain: the block that a retarget at that length reads as first_block has the
\* time first_time (where it is not the genesis block), the tail has the time
\* tail_time and the difficulty tail_compact.
RECURSIVE ChainWith(_, _, _, _, _)
ChainWith(blocks, len, first_time, tail_time, tail_compact) ==
    IF Len(blocks) >= len THEN blocks
    ELSE LET i == Len(blocks) + 1
             time == IF i = len THEN tail_time
                     ELSE IF i = len - ADJUSTMENT_INTERVAL + 1 THEN first_time
                     ELSE 0
             difficulty == IF i = len THEN tail_compact ELSE GENESIS_COMPACT
             block == create_block_template(blocks, <<>>, difficulty, time)
         IN  ChainWith(add_block(blocks, block, TRUE).blocks, len, first_time,
                       tail_time, tail_compact)

\* The lengths, block times and tail difficulties adjust_difficulty is called
\* with: 0x207fffff, 0x1d00ffff, 0x2100ffff, 0x220000ff, 0x03000001, 0x03123456,
\* 0x01000000 and, between retargets, 0x40000001, whose target has more than
\* 32 bytes.
ChainLengths == {9, 10, 11, 19, 20}
BlockTimes == {0, 1, 5999, 6000, 6001, 12000, 8000000}
TailCompacts == {GENESIS_COMPACT, HARD_COMPACT, 553713663, 570425599, 50331649, 51524694,
                 16777216, 1073741825}

\* consensus::adjust_difficulty on such a chain.
AdjustDifficulty(len, first_time, tail_time, tail_compact) ==
    /\ fn_call = NoFn
    /\ len % ADJUSTMENT_INTERVAL = 0 => ~CompactToTargetPanics(tail_compact)
    /\ LET blocks == ChainWith(new_with_genesis, len, first_time, tail_time, tail_compact)
       IN  fn_call' = [fn |-> "adjust_difficulty",
                       len |-> Len(blocks),
                       first_time |-> blocks[Max(1, len - ADJUSTMENT_INTERVAL + 1)].header.time,
                       tail_time |-> latest_block(blocks).header.time,
                       tail_compact |-> latest_block(blocks).header.difficulty_compact,
                       result |-> adjust_difficulty(blocks)]
    /\ UNCHANGED outside_call

\* adjust_difficulty on the genesis chain.
AdjustGenesis ==
    /\ fn_call = NoFn
    /\ fn_call' = [fn |-> "adjust_difficulty",
                   len |-> 1,
                   first_time |-> 0,
                   tail_time |-> latest_block(new_with_genesis).header.time,
                   tail_compact |-> latest_block(new_with_genesis).header.difficulty_compact,
                   result |-> adjust_difficulty(new_with_genesis)]
    /\ UNCHANGED outside_call

\* The 32-bit compact values the codec is called with, by exponent byte and
\* 24-bit mantissa field (0x80 = 128 and above have the top bit set).
Exponents == 0..36 \cup {127}
MantissaFields == {0, 1, 127, 128, 255, 256, 32767, 32768, 65535, 65536, 1193046,
                   8388607, 8388608, 9581654, 16777215}

\* target_to_compact(compact_to_target(c)); compact_to_target panics on a target
\* of more than 32 bytes.
RoundTrip(exponent, field) ==
    /\ fn_call = NoFn
    /\ LET c == exponent * 16777216 + field
       IN  fn_call' = [fn |-> "round_trip",
                       compact |-> c,
                       panics |-> CompactToTargetPanics(c),
                       result |-> IF CompactToTargetPanics(c) THEN -1
                                  ELSE target_to_compact(compact_to_target(c))]
    /\ UNCHANGED outside_call

\* The headers mine_block is called with: the header create_genesis_block
\* builds, and headers of four times on two tails at 0x207fffff, 0x2010ffff
\* (one digest in sixteen meets it) and 0x1d00ffff (none does), carrying the
\* nonce 0, 5 or the largest one.
MineHeaders ==
    { HeaderNew(1, time, difficulty_compact, nonce, prev_hash, merkle_root) :
        time \in 0..3,
        difficulty_compact \in {GENESIS_COMPACT, 537985023, HARD_COMPACT},
        nonce \in {0, 5, NONCE_MAX},
        prev_hash \in {ConstHash(0), HashBlock(create_genesis_block)},
        merkle_root \in {compute_merkle_root(<<>>), compute_merkle_root(<<GenesisTx>>)} }

\* consensus::mine_block, once it has returned (on a header no nonce satisfies
\* it does not).
MineBlock(header) ==
    /\ fn_call = NoFn
    /\ mine_block(header).nonce >= 0
    /\ fn_call' = [fn |-> "mine_block", header |-> header, result |-> mine_block(header)]
    /\ UNCHANGED outside_call

\* The transaction lists compute_merkle_root is called with: every list of up
\* to three of the transactions 1..3 (repeats and every order), and the lists
\* of the first n test transactions up to MaxMerkle.
MerkleInputs ==
    UNION { [1..n -> {TestTx(1), TestTx(2), TestTx(3)}] : n \in 0..3 }
        \cup { [i \in 1..n |-> TestTx(i)] : n \in 4..MaxMerkle }

\* block::compute_merkle_root
ComputeMerkleRoot(transactions) ==
    /\ fn_call = NoFn
    /\ fn_call' = [fn |-> "compute_merkle_root", transactions |-> transactions,
                   result |-> compute_merkle_root(transactions)]
    /\ UNCHANGED outside_call

\* The blocks whose encodings from_bytes is called with: the genesis block, a
\* block of no transactions and one of two.
EncodedBlocks ==
    { create_genesis_block,
      create_block_template(new_with_genesis, <<>>, GENESIS_COMPACT, 1),
      create_block_template(new_with_genesis, <<TestTx(1), TestTx(2)>>, HARD_COMPACT, 2) }

\* The bytes appended to an encoding.
TrailingBytes == {<<>>, <<0>>, <<7>>, <<1, 2>>}

\* Block::from_bytes(data) on the first length bytes of the encoding of a block
\* followed by extra: the whole encoding, a truncated one, or one with bytes
\* after it.
FromBytes(block, length, extra) ==
    /\ fn_call = NoFn
    /\ length <= Len(SerializeBlock(block))
    /\ length < Len(SerializeBlock(block)) => extra = <<>>
    /\ LET data == SubSeq(SerializeBlock(block), 1, length) \o extra
           r == BlockFromBytes(data)
       IN  fn_call' = [fn |-> "from_bytes",
                       encoding |-> SerializeBlock(block),
                       data |-> data,
                       ok |-> r.ok,
                       val |-> IF r.ok THEN r.val ELSE NoBlock]
    /\ UNCHANGED outside_call

\* The input and output lists Transaction::new is called with: none, one
\* datum, one empty datum, two data.
DataLists == {<<>>, << <<1>> >>, << <<>> >>, << <<1>>, <<2, 3>> >>, << <<2, 3>>, <<1>> >>}

\* Transaction::new(inputs, outputs)
NewTransaction(inputs, outputs) ==
    /\ fn_call = NoFn
    /\ fn_call' = [fn |-> "transaction_new", inputs |-> inputs, outputs |-> outputs,
                   result |-> TransactionNew(inputs, outputs)]
    /\ UNCHANGED outside_call

\* The blocks a chain may start with (Blockchain::new takes any block): the
\* genesis block of the code, a mined block of two transactions with the Merkle
\* root [1; 32], a mined block whose prev_hash is [1; 32], and a block at the
\* hard difficulty, whose header does not meet its target.
ValidateGenesis ==
    { create_genesis_block,
      MinedOn(ConstHash(0), ConstHash(1), <<TestTx(1), TestTx(2)>>),
      MinedOn(ConstHash(1), compute_merkle_root(<<>>), <<>>),
      BlockNew(HeaderNew(1, 0, HARD_COMPACT, 0, ConstHash(0), compute_merkle_root(<<>>)),
               <<>>) }

\* The chains of up to n blocks that a holder of the public field blocks can
\* make of such a start: every next block is one of CandidateBlocks, sound or
\* tampered with, pushed on whatever the chain holds.
RECURSIVE ChainsUpTo(_)
ChainsUpTo(n) ==
    IF n = 1 THEN { <<g>> : g \in ValidateGenesis }
    ELSE LET shorter == ChainsUpTo(n - 1)
         IN  shorter \cup UNION { { Append(blocks, block) : block \in CandidateBlocks(blocks) } :
                                     blocks \in { c \in shorter : Len(c) = n - 1 } }

ValidateChains == ChainsUpTo(MaxValidated)

\* Blockchain::validate_with_options(skip_pow) on such a chain.
ValidateWithOptions(blocks, skip_pow) ==
    /\ fn_call = NoFn
    /\ fn_call' = [fn |-> "validate_with_options", blocks |-> blocks, skip_pow |-> skip_pow,
                   result |-> validate_with_options(blocks, skip_pow)]
    /\ UNCHANGED outside_call

CallNext ==
    \/ \E blocks \in ValidateChains, skip_pow \in BOOLEAN : ValidateWithOptions(blocks, skip_pow)
    \/ \E threads \in 1..MaxThreads : Distribute(threads)
    \/ \E inputs \in DataLists, outputs \in DataLists : NewTransaction(inputs, outputs)
    \/ \E block \in EncodedBlocks, length \in 0..MaxEncoding, extra \in TrailingBytes :
          FromBytes(block, length, extra)
    \/ \E transactions \in MerkleInputs : ComputeMerkleRoot(transactions)
    \/ \E header \in MineHeaders : MineBlock(header)
    \/ \E exponent \in Exponents, field \in MantissaFields : RoundTrip(exponent, field)
    \/ \E len \in ChainLengths, first_time \in BlockTimes, tail_time \in BlockTimes,
          tail_compact \in TailCompacts :
            AdjustDifficulty(len, first_time, tail_time, tail_compact)
    \/ AdjustGenesis

\* ------------------------------------------------------------ specifications

vars == <<node_vars, chain_vars, miner_vars, call_vars>>

Init == NodeInit /\ ChainInit /\ MinerInit /\ CallInit

NodeSpec == Init /\ [][NodeNext]_vars

ChainSpec == Init /\ [][ChainNext]_vars

MinerSpec == Init /\ [][MinerNext]_vars

\* The tokio runtime polls every task that can make progress (a select! whose
\* result branch is ready takes it), the node answers every request, and time
\* passes.
MinerFairSpec ==
    /\ MinerSpec
    /\ WF_vars(StartMining)
    /\ WF_vars(\E answer \in NodeAnswers : FetchResponds(answer))
    /\ WF_vars(ReceiveResult)
    /\ WF_vars(\E outcome \in {"accepted", "refused", "err"} : SubmitResponds(outcome))
    /\ WF_vars(RestartWork)
    /\ WF_vars(HeartbeatFires)
    /\ WF_vars(Tick)
    /\ \A w \in Workers : WF_vars(WorkerStep(w))

PoolInit == NodePoolInit /\ ChainInit /\ MinerInit /\ CallInit

PoolSpec == PoolInit /\ [][PoolNext]_vars

MineSpec == Init /\ [][MineNext]_vars

CallSpec == Init /\ [][CallNext]_vars

\* The node with clients that mine on its templates.
ClientSpec == Init /\ [][ClientNext]_vars

\* add_block and create_block_template on one chain.
TemplateSpec == Init /\ [][TemplateNext]_vars

\* The miner with main's Ctrl+C branch.
ShutdownSpec == Init /\ [][ShutdownNext]_vars

\* The miner up to the end of main.
DropSpec == Init /\ [][DropNext]_vars

ShutdownFairSpec ==
    /\ ShutdownSpec
    /\ WF_vars(StartMining)
    /\ WF_vars(\E answer \in NodeAnswers : FetchResponds(answer))
    /\ WF_vars(ReceiveResult)
    /\ WF_vars(\E outcome \in {"accepted", "refused", "err"} : SubmitResponds(outcome))
    /\ WF_vars(RestartWork)
    /\ WF_vars(HeartbeatFires)
    /\ WF_vars(Tick)
    /\ \A w \in Workers : WF_vars(WorkerStep(w) \/ WorkerEnds(w))

\* ------------------------------------------------------------ chain properties

\* The hash add_block compares prev_hash with: that of the tail the call found.
TailHashAt(call) == HashBlock(latest_block(call.before))

\* C2, as the specification states it: every block after the genesis names the
\* double SHA-256 of the previous block's header as its prev_hash.
C2_PrevHashIsHeaderHash ==
    \A i \in 2..Len(bc) : bc[i].header.prev_hash = HashHeader(bc[i - 1].header)

\* C2, as the code has it: every block after the genesis names the double SHA-256
\* of the whole serialized previous block (header and transactions) as its
\* prev_hash, and add_block accepts a block only if it names the tail's so.
C2_PrevHashIsBlockHash ==
    /\ \A i \in 2..Len(bc) : bc[i].header.prev_hash = HashBlock(bc[i - 1])
    /\ bc_call.result = "Ok" => bc_call.block.header.prev_hash = TailHashAt(bc_call)

\* C2's case: two blocks accepted, the second without its proof of work checked.
C2_Witness ==
    /\ Len(bc) >= 3
    /\ bc_call.result = "Ok"
    /\ bc_call.skip_pow

\* C3: add_block(block, false) on a block with the right prev_hash and Merkle
\* root whose header fails validate_pow returns InvalidPoW and leaves the chain
\* as it was.
C3_PowFailureIsInvalidPoW ==
    ( /\ bc_call.result # "none"
      /\ ~bc_call.skip_pow
      /\ bc_call.block.header.prev_hash = TailHashAt(bc_call)
      /\ validate_merkle_root(bc_call.block)
      /\ ~validate_pow(bc_call.block.header) )
    => bc_call.result = "InvalidPoW" /\ bc = bc_call.before

\* C4: add_block on a block whose prev_hash is not the hash of the tail returns
\* InvalidPreviousHash whatever skip_pow is, and leaves the chain as it was.
C4_WrongPrevHashRejected ==
    ( /\ bc_call.result # "none"
      /\ bc_call.block.header.prev_hash # TailHashAt(bc_call) )
    => bc_call.result = "InvalidPreviousHash" /\ bc = bc_call.before

\* C4's case: on a chain that has grown, a block naming another hash was offered
\* with skip_pow, and refused.
C4_Witness ==
    /\ Len(bc) >= 2
    /\ bc_call.result = "InvalidPreviousHash"
    /\ bc_call.skip_pow
    /\ bc_call.block.header.prev_hash # TailHashAt(bc_call)
    /\ validate_merkle_root(bc_call.block)

\* C5: the chain is append-only: every step of the node leaves the chain it
\* found as a prefix of the chain it leaves.
C5_AppendOnly == [][IsPrefix(chain, chain')]_vars

\* C5's case: the node has accepted two blocks, served a template and answered
\* a refused block.
C5_Witness ==
    /\ Len(chain) >= 3
    /\ \E c \in Clients : rpc_pc[c] = "done" /\ rpc_result[c].kind = "template"

\* A submit_block call whose block was decoded, and whether it was accepted.
IsSubmit(c) == rpc_method[c] = "submit_block" /\ rpc_block[c] # NoBlock
Accepted(c) ==
    \/ rpc_pc[c] = "sb_mempool"
    \/ rpc_pc[c] = "done" /\ rpc_result[c].kind = "submit" /\ rpc_result[c].accepted
Refused(c) == rpc_pc[c] = "done" /\ rpc_result[c].kind = "submit" /\ ~rpc_result[c].accepted

\* C6: of two submit_block calls in flight whose blocks name the same prev_hash
\* at most one is accepted; no two blocks of the chain name the same prev_hash,
\* so the chain grew by one block on that tail; and only the holder of
\* chain.write() is between its append and its answer.
C6_OneAcceptedPerTail ==
    /\ \A c1, c2 \in Clients :
          ( /\ c1 # c2 /\ IsSubmit(c1) /\ IsSubmit(c2)
            /\ rpc_block[c1].header.prev_hash = rpc_block[c2].header.prev_hash )
          => ~(Accepted(c1) /\ Accepted(c2))
    /\ \A i, j \in 1..Len(chain) :
          i # j => chain[i].header.prev_hash # chain[j].header.prev_hash
    /\ \A c \in Clients : rpc_pc[c] = "sb_mempool" => chain_writer = c

\* C6's case: two calls with blocks on the same tail, both sound, one accepted
\* and one answered accepted:false, and one block more on the chain.
C6_Witness ==
    \E c1, c2 \in Clients :
        /\ c1 # c2 /\ IsSubmit(c1) /\ IsSubmit(c2)
        /\ rpc_block[c1].header.prev_hash = HashBlock(chain[1])
        /\ rpc_block[c2].header.prev_hash = HashBlock(chain[1])
        /\ validate_merkle_root(rpc_block[c2]) /\ validate_pow(rpc_block[c2].header)
        /\ Accepted(c1) /\ rpc_pc[c1] = "done"
        /\ Refused(c2) /\ rpc_result[c2].message = "InvalidPreviousHash"
        /\ Len(chain) = 2

\* The transactions of the blocks of a chain.
RECURSIVE ChainTxs(_)
ChainTxs(blocks) ==
    IF blocks = <<>> THEN {}
    ELSE { Head(blocks).transactions[i] : i \in 1..Len(Head(blocks).transactions) }
             \cup ChainTxs(Tail(blocks))

\* C7: every transaction that was added to the mempool is still in the mempool
\* or is in a block of the chain.
C7_NoTransactionLost ==
    \A i \in 1..NumTestTx :
        \/ \E k \in 1..Len(mempool) : mempool[k] = TestTx(i)
        \/ TestTx(i) \in ChainTxs(chain)

\* ------------------------------------------------------------ miner properties

\* C1: the coordinator makes at most one submit_block call with a block mined
\* from one work generation: no work_id occurs twice among the calls made.
C1_OneSubmitPerGeneration ==
    \A i, j \in 1..Len(submitted) : i # j => submitted[i] # submitted[j]

\* No reachable state enables the staleness branch of select!: the heartbeat
\* sleep of the same select! runs out first, and the next select! starts both
\* sleeps anew.
StaleBranchDead == ~ENABLED StaleBranch

\* A get_and_distribute_work call made by the staleness branch is in progress.
StaleRefetch == co_pc = "fetch" /\ co_ctx = "stale"

\* C8: whenever the coordinator waits in select! with a template older than
\* 60 s, a result arrives or the staleness timer fires and the template is
\* fetched anew.
C8_StaleTemplateRefetched ==
    (co_pc = "select" /\ template_stale) ~> (co_pc = "submit" \/ StaleRefetch)

C10_FailedFetchRetried ==
    (co_pc = "select" /\ last_fetch = "failed") ~> (co_pc = "fetch")

\* The coordinator has published cancel = true on the channel of the item
\* worker w holds.
CancelPublished(w) == w_work[w] # NoWork /\ cancel[w_work[w].cancel_rx].value

\* C11: once cancel = true is published for a generation, or solution_found is
\* set, a worker mining an item of that generation stops hashing it no later
\* than its next batch boundary.  A published cancel stays published; while
\* solution_found is set, cancel is published on the current channel, and it is
\* published on every older one; a worker at the head of a batch gives the item
\* up; a worker inside a batch hashes at most the BATCH_SIZE nonces of that
\* batch, sends no result, and gives the item up or comes to the head of the
\* next batch.
C11_StopsAtBatchBoundary ==
    [][ /\ \A i \in 1..Len(cancel) : cancel[i].value => cancel'[i].value
        /\ \A i \in 1..Len(cancel) : (i # cancel_tx \/ solution_found) => cancel[i].value
        /\ \A w \in Workers :
              (CancelPublished(w) /\ w_pc'[w] # w_pc[w]) =>
                  /\ w_pc[w] = "batch" => (w_pc'[w] = "recv" /\ w_work'[w] = NoWork)
                  /\ w_pc[w] = "scan" =>
                        /\ w_pc'[w] \in {"recv", "batch"}
                        /\ w_pc'[w] = "batch" => w_batch_start'[w] = w_batch_start[w] + BATCH_SIZE
                        /\ Min(w_batch_start[w] + BATCH_SIZE,
                               w_work[w].nonce_start + w_work[w].nonce_range)
                              - w_batch_start[w] <= BATCH_SIZE ]_vars

\* C11's case: a worker that has hashed a batch of its item stands at the head
\* of the next one with cancel published on the item's channel, while the
\* coordinator has already reset solution_found for the next generation.
C11_Witness ==
    \E w \in Workers :
        /\ w_pc[w] = "batch"
        /\ CancelPublished(w)
        /\ w_batch_start[w] > w_work[w].nonce_start
        /\ ~solution_found

\* No reachable state enables the clean shutdown of start_mining: stop() is
\* called only by main's Ctrl+C branch, after the future of start_mining was
\* dropped, and MiningWorker::stop only by the clean shutdown.
CleanShutdownDead == ~ENABLED CleanShutdown

\* stop() has cleared the running flag that start_mining had set.
StopCalled == co_pc \notin {"new", "returned_err"} /\ ~running

\* C12: after stop() has cleared the miner's running flag, the coordinator
\* loop exits, every worker's running flag is cleared, every worker task
\* terminates, and start_mining returns.
C12_StopShutsDown ==
    StopCalled ~> ( /\ co_pc = "returned_ok"
                    /\ \A w \in Workers : ~w_running[w] /\ w_pc[w] = "stopped" )

\* ------------------------------------------------------------ node properties

\* The names of the errors add_block returns, as format!("{:?}", e) writes them.
AppendErrors == {"InvalidPreviousHash", "InvalidMerkleRoot", "InvalidPoW"}

\* C13: when add_block refuses the block of a submit_block call, the call is
\* answered with the result {accepted: false, message: the error's name}, not
\* with a JSON-RPC error, and the chain and the mempool are left as they were.
C13_RejectionIsResult ==
    [][ \A c \in Clients :
          ( /\ rpc_pc[c] = "sb_chain"
            /\ rpc_pc'[c] # "sb_chain"
            /\ add_block(chain, rpc_block[c], FALSE).result # "Ok" )
          => /\ rpc_pc'[c] = "done"
             /\ rpc_result'[c].kind = "submit"
             /\ ~rpc_result'[c].accepted
             /\ rpc_result'[c].message = add_block(chain, rpc_block[c], FALSE).result
             /\ rpc_result'[c].message \in AppendErrors
             /\ chain' = chain
             /\ mempool' = mempool ]_vars

\* C13's case: on a chain that has grown, a block that fails its proof of work
\* has been answered with accepted:false, the mempool still holding transactions.
C13_Witness ==
    \E c \in Clients :
        /\ IsSubmit(c) /\ Refused(c)
        /\ rpc_result[c].message \in AppendErrors
        /\ rpc_block[c].header.prev_hash = HashBlock(latest_block(chain))
        /\ ~validate_pow(rpc_block[c].header)
        /\ Len(chain) >= 2
        /\ mempool # <<>>

\* C14: when submit_block has appended a block and the write of the chain to
\* disk fails, the block stays the tail of the chain, none of its transactions
\* is in the mempool, and the call is answered accepted:true.
C14_SaveFailureKeepsBlock ==
    [][ \A c \in Clients :
          ( /\ rpc_pc[c] = "sb_mempool"
            /\ rpc_pc'[c] # "sb_mempool"
            /\ disk' # chain )
          => /\ chain' = chain
             /\ latest_block(chain') = rpc_block[c]
             /\ \A i \in 1..Len(rpc_block[c].transactions), k \in 1..Len(mempool') :
                   HashTx(mempool'[k]) # HashTx(rpc_block[c].transactions[i])
             /\ rpc_pc'[c] = "done"
             /\ rpc_result'[c].kind = "submit"
             /\ rpc_result'[c].accepted ]_vars

\* C14's case: a block with a transaction of the mempool was accepted, the
\* chain on disk is not the chain in memory, and the other transaction is
\* still in the mempool.
C14_Witness ==
    \E c \in Clients :
        /\ IsSubmit(c) /\ Accepted(c) /\ rpc_pc[c] = "done"
        /\ disk # chain
        /\ latest_block(chain) = rpc_block[c]
        /\ rpc_block[c].transactions = <<TestTx(1)>>
        /\ mempool = <<TestTx(2)>>

\* C15: get_block_template takes min(100, mempool length) transactions from
\* the front of the mempool, in their order, and returns exactly those as the
\* template's transactions; what it leaves in the mempool is the rest, in its
\* order; the chain is left as it was.
C15_TemplateDrainsFront ==
    [][ \A c \in Clients :
          ( /\ rpc_pc[c] = "q_mempool"
            /\ rpc_method[c] = "get_block_template"
            /\ rpc_pc'[c] # "q_mempool" )
          => /\ rpc_result'[c].kind = "template"
             /\ Len(rpc_result'[c].transactions) =
                   (IF Len(mempool) > TEMPLATE_TX_LIMIT THEN TEMPLATE_TX_LIMIT
                    ELSE Len(mempool))
             /\ rpc_result'[c].transactions \o mempool' = mempool
             /\ chain' = chain ]_vars

\* C15's case: a template of 100 transactions served from a larger mempool,
\* and transactions left in it.
C15_Witness ==
    \E c \in Clients :
        /\ rpc_pc[c] = "done"
        /\ rpc_result[c].kind = "template"
        /\ Len(rpc_result[c].transactions) = TEMPLATE_TX_LIMIT
        /\ mempool # <<>>

\* ------------------------------------------------------------ function properties

\* The end of the range of item i, as mine_work computes it, before reduction
\* to the width of a nonce.
RangeEnd(items, i) == items[i].nonce_start + items[i].nonce_range

\* C16: for every number of workers N >= 1 the N ranges dispatched are
\* [i * w, i * w + w) with w = floor(NONCE_MAX / N): each starts where the one
\* before ends, no two of them share a nonce, and no start and no end
\* (nonce_start + nonce_range) exceeds NONCE_MAX.
C16_RangesDisjoint ==
    fn_call.fn = "distribute" =>
        LET n == fn_call.threads
            items == fn_call.items
            width == NONCE_MAX \div n
        IN  /\ DOMAIN items = 0..(n - 1)
            /\ \A i \in 0..(n - 1) :
                  /\ items[i].nonce_range = width
                  /\ items[i].nonce_start = i * width
                  /\ RangeEnd(items, i) <= NONCE_MAX
            /\ \A i \in 0..(n - 2) : items[i + 1].nonce_start = RangeEnd(items, i)
            /\ \A i, j \in 0..(n - 1) :
                  i < j => /\ RangeEnd(items, i) <= items[j].nonce_start
                           /\ items[i].nonce_start < items[j].nonce_start

\* C16's case: the nonce space split among a number of workers that does not
\* divide NONCE_MAX, the last range ending below it.
C16_Witness ==
    /\ fn_call.fn = "distribute"
    /\ fn_call.threads >= 3
    /\ NONCE_MAX % fn_call.threads # 0
    /\ RangeEnd(fn_call.items, fn_call.threads - 1) < NONCE_MAX

\* C17: on a chain grown from the genesis chain by blocks that mine_new_block
\* produced on the chain as it was and add_block(block, false) was given, every
\* add_block has returned Ok and validate() is true.
C17_MinedChainValidates ==
    /\ bc_call.result \in {"none", "Ok"}
    /\ bc_call.result = "Ok" => bc = Append(bc_call.before, bc_call.block)
    /\ validate(bc)

\* C17's case: a chain of eleven blocks, the last mined at the difficulty the
\* retarget at length ten gave.
C17_Witness ==
    /\ Len(bc) = ADJUSTMENT_INTERVAL + 1
    /\ bc_call.result = "Ok"
    /\ latest_block(bc).header.difficulty_compact # GENESIS_COMPACT
    /\ validate(bc)

\* a <= b for two numbers given by big-endian bytes.
NumLeq(a, b) ==
    LET x == ToBytesBE(a)
        y == ToBytesBE(b)
    IN  Len(x) < Len(y) \/ (Len(x) = Len(y) /\ LeqBE(x, y))

\* 2^256 - 1
MaxTarget == [i \in 1..HASH_SIZE |-> 255]

\* The four big-endian bytes of a number below 2^31.
IntBytes(n) == <<n \div 16777216, (n \div 65536) % 256, (n \div 256) % 256, n % 256>>

\* C18: at a chain length that is a positive multiple of 10, adjust_difficulty
\* returns target_to_compact(min(2^256 - 1, floor(target(tail) * actual / 6000)))
\* with actual = max(1, tail.time saturating-minus chain[len - 10].time): actual
\* is 1 when the tail is not later than that block; the quotient q taken is the
\* floor (q * 6000 <= target * actual < q * 6000 + 6000); above 2^256 - 1 it is
\* replaced by 2^256 - 1; and where the product fits a machine integer the
\* result is that of integer arithmetic.
C18_RetargetFormula ==
    (fn_call.fn = "adjust_difficulty" /\ fn_call.len % 10 = 0) =>
        LET actual == IF fn_call.tail_time > fn_call.first_time
                      THEN fn_call.tail_time - fn_call.first_time ELSE 1
            target == compact_to_target(fn_call.tail_compact)
            product == BigMulSmall(target, actual, 0)
            q == BigDivSmall(product, 6000, 0)
            small == fn_call.tail_compact \div 16777216 = 3
            mantissa == fn_call.tail_compact % 16777216
        IN  /\ NumLeq(BigMulSmall(q, 6000, 0), product)
            /\ ~NumLeq(BigMulSmall(q, 6000, 6000), product)
            /\ fn_call.result =
                  target_to_compact(IF NumLeq(q, MaxTarget) THEN q ELSE MaxTarget)
            /\ (small /\ actual <= 2147483647 \div mantissa) =>
                  fn_call.result = target_to_compact(IntBytes((mantissa * actual) \div 6000))

\* C18's case: a chain of 20 blocks whose tail is earlier than chain[len - 10],
\* retargeted to another difficulty.
C18_Witness ==
    /\ fn_call.fn = "adjust_difficulty"
    /\ fn_call.len = 20
    /\ fn_call.tail_time < fn_call.first_time
    /\ fn_call.tail_compact = GENESIS_COMPACT
    /\ fn_call.result # GENESIS_COMPACT

\* C19: at a chain length below 10 or not a multiple of 10, adjust_difficulty
\* returns the difficulty_compact of the tail.
C19_NoRetargetBetween ==
    ( /\ fn_call.fn = "adjust_difficulty"
      /\ (fn_call.len < 10 \/ fn_call.len % 10 # 0) )
    => fn_call.result = fn_call.tail_compact

\* C19's case: a chain of 19 blocks whose tail has another difficulty than the
\* blocks before it and a time far from theirs.
C19_Witness ==
    /\ fn_call.fn = "adjust_difficulty"
    /\ fn_call.len = 19
    /\ fn_call.tail_compact = HARD_COMPACT
    /\ fn_call.tail_time = 12000
    /\ fn_call.result = HARD_COMPACT

\* The exponent byte and the 24-bit mantissa field of a compact value.
ExponentOf(c) == c \div 16777216
FieldOf(c) == c % 16777216

C21_MineBlockFirstValid ==
    /\ fn_call.fn = "mine_block" =>
          LET h == fn_call.header
              r == fn_call.result
          IN  /\ r = [h EXCEPT !.nonce = r.nonce]
              /\ r.nonce \in 0..NONCE_MAX
              /\ \A n \in 0..(r.nonce - 1) : ~validate_pow([h EXCEPT !.nonce = n])
              /\ ~CompactToTargetPanics(r.difficulty_compact)
              /\ LeqBE(DigestBytes(HashHeader(r)), compact_to_target(r.difficulty_compact))
              /\ r = mine_block([h EXCEPT !.nonce = 0])
    /\ ( /\ fn_call.fn = "mine_block"
         /\ fn_call.header = [create_genesis_block.header EXCEPT !.nonce = 0] )
       => fn_call.result = create_genesis_block.header

\* C21's case: a header that carried the nonce 5 came back with a nonce above
\* 0 and below 5, the first to meet 0x2010ffff.
C21_Witness ==
    /\ fn_call.fn = "mine_block"
    /\ fn_call.header.nonce = 5
    /\ fn_call.header.difficulty_compact = 537985023
    /\ fn_call.result.nonce \in 1..4

\* The digest of a pair of digests: double SHA-256 of the 64 bytes left, right.
Pair(left, right) == double_sha256(EncodeArray(left) \o EncodeArray(right))

\* C22: compute_merkle_root is the all-zero 32-byte root for the empty list, the
\* hash of the transaction for a list of one, and for longer lists the root of
\* the tree of pairs taken in order, the last hash of a level of odd length
\* paired with itself: written out for every length up to seven.
C22_MerkleRootReference ==
    fn_call.fn = "compute_merkle_root" =>
        LET txs == fn_call.transactions
            n == Len(txs)
            h(i) == HashTx(txs[i])
            root == fn_call.result
        IN  /\ n = 0 => root = ConstHash(0) /\ DigestBytes(root) = Zeros(HASH_SIZE)
            /\ n = 1 => root = h(1)
            /\ n = 2 => root = Pair(h(1), h(2))
            /\ n = 3 => root = Pair(Pair(h(1), h(2)), Pair(h(3), h(3)))
            /\ n = 4 => root = Pair(Pair(h(1), h(2)), Pair(h(3), h(4)))
            /\ n = 5 => root = Pair(Pair(Pair(h(1), h(2)), Pair(h(3), h(4))),
                                   Pair(Pair(h(5), h(5)), Pair(h(5), h(5))))
            /\ n = 6 => root = Pair(Pair(Pair(h(1), h(2)), Pair(h(3), h(4))),
                                   Pair(Pair(h(5), h(6)), Pair(h(5), h(6))))
            /\ n = 7 => root = Pair(Pair(Pair(h(1), h(2)), Pair(h(3), h(4))),
                                   Pair(Pair(h(5), h(6)), Pair(h(7), h(7))))
            /\ n <= MaxMerkle

\* C22's case: the root of five transactions, where the fifth hash is paired
\* with itself on the first level and the pair with itself on the second.
C22_Witness ==
    /\ fn_call.fn = "compute_merkle_root"
    /\ Len(fn_call.transactions) = 5
    /\ fn_call.result # ConstHash(0)

\* C23: create_block_template returns a block of the given transactions whose
\* header names the hash of the tail of the chain as prev_hash, has nonce 0, the
\* given difficulty and timestamp, and the Merkle root of the transactions, so
\* that validate_merkle_root succeeds; the call leaves the chain as it was.
C23_TemplateOnTail ==
    [][ fn_call' # fn_call =>
          LET t == fn_call'.result
          IN  /\ bc' = bc
              /\ t.header.prev_hash = HashBlock(bc[Len(bc)])
              /\ t.header.nonce = 0
              /\ t.header.difficulty_compact = fn_call'.difficulty_compact
              /\ t.header.time = fn_call'.timestamp
              /\ t.transactions = fn_call'.transactions
              /\ t.header.merkle_root = compute_merkle_root(fn_call'.transactions)
              /\ validate_merkle_root(t) ]_vars

\* C23's case: a template of no transactions made on a chain of three blocks
\* whose tail holds transactions; its root is the all-zero one.
C23_Witness ==
    /\ fn_call.fn = "create_block_template"
    /\ Len(fn_call.blocks) = 3
    /\ latest_block(fn_call.blocks).transactions # <<>>
    /\ fn_call.transactions = <<>>
    /\ fn_call.result.header.merkle_root = ConstHash(0)
    /\ bc = fn_call.blocks

\* from_bytes fails on every proper prefix of the encoding of a block, and
\* returns the block on the encoding itself.
TruncationRejected ==
    fn_call.fn = "from_bytes" =>
        /\ Len(fn_call.data) < Len(fn_call.encoding) => ~fn_call.ok
        /\ fn_call.data = fn_call.encoding =>
              fn_call.ok /\ SerializeBlock(fn_call.val) = fn_call.encoding

\* C24: from_bytes fails on every proper prefix of a valid encoding and on
\* every valid encoding followed by one or more bytes; where it succeeds, its
\* input is exactly the encoding of the value it returns.
C24_RejectsTruncatedAndTrailing ==
    fn_call.fn = "from_bytes" =>
        /\ Len(fn_call.data) < Len(fn_call.encoding) => ~fn_call.ok
        /\ Len(fn_call.data) > Len(fn_call.encoding) => ~fn_call.ok
        /\ fn_call.ok => SerializeBlock(fn_call.val) = fn_call.data

\* C25: Transaction::new returns EmptyInputs when inputs is empty, whatever
\* outputs is; EmptyOutputs when inputs is not empty and outputs is; and
\* otherwise the transaction of exactly the given inputs and outputs, in
\* their order.
C25_TransactionNew ==
    fn_call.fn = "transaction_new" =>
        LET r == fn_call.result
        IN  /\ fn_call.inputs = <<>> => r = [err |-> "EmptyInputs"]
            /\ (fn_call.inputs # <<>> /\ fn_call.outputs = <<>>) => r = [err |-> "EmptyOutputs"]
            /\ (fn_call.inputs # <<>> /\ fn_call.outputs # <<>>) =>
                  /\ r.err = "Ok"
                  /\ r.tx.inputs = fn_call.inputs
                  /\ r.tx.outputs = fn_call.outputs

\* C25's case: both lists empty, and EmptyInputs returned.
C25_Witness ==
    /\ fn_call.fn = "transaction_new"
    /\ fn_call.inputs = <<>>
    /\ fn_call.outputs = <<>>
    /\ fn_call.result.err = "EmptyInputs"

\* Worker w's result_tx.send(result) completes in this step.
Sends(w) == w_pc[w] = "send" /\ w_pc'[w] = "recv" /\ result_rx' # result_rx

\* C26: a worker sends a MiningResult only if, at the moment it sends, neither
\* the cancel channel of the item the result was mined from holds true nor
\* solution_found is set.
C26_SendsOnlyUncancelled ==
    [][ \A w \in Workers :
          Sends(w) => ~cancel[w_result[w].cancel_rx].value /\ ~solution_found ]_vars

\* The work items that exist: in a work channel, or held by a worker.
ItemsAbout ==
    UNION { { work_rx[w][i] : i \in 1..Len(work_rx[w]) } : w \in Workers }
        \cup { w_work[w] : w \in { v \in Workers : w_work[v] # NoWork } }

\* A work item is sent in this step.
WorkSent == \E w \in Workers : Len(work_rx'[w]) > Len(work_rx[w])

\* C27: the coordinator's order after a result.  The step that takes the result
\* sets solution_found, publishes cancel = true on the channel it holds and
\* calls submit_block, creating no channel and sending no work.  While the
\* submission is pending nothing is fetched, cancelled, reset or sent.  The
\* next get_and_distribute_work starts only after the submission has returned;
\* it resets solution_found and makes a new cancel channel holding false; and
\* the items it sends, after the template has come, carry that channel, still
\* false, and a work_id above that of every item about, with solution_found
\* still reset.
C27_ResultOrder ==
    [][ /\ (co_pc = "select" /\ co_pc' = "submit") =>
              /\ solution_found'
              /\ cancel_tx' = cancel_tx
              /\ cancel'[cancel_tx].value
              /\ Len(cancel') = Len(cancel)
              /\ ~WorkSent /\ work_counter' = work_counter
        /\ co_pc = "submit" =>
              /\ co_pc' \in {"submit", "settle"}
              /\ ~WorkSent
              /\ UNCHANGED <<solution_found, cancel, cancel_tx, work_counter>>
        /\ (co_pc' = "fetch" /\ co_pc # "fetch" /\ co_ctx' = "result") =>
              /\ co_pc = "settle"
              /\ ~solution_found'
              /\ Len(cancel') = Len(cancel) + 1
              /\ cancel_tx' = Len(cancel')
              /\ ~cancel'[cancel_tx'].value
              /\ cancel'[cancel_tx].value
              /\ ~WorkSent
        /\ (co_pc = "fetch" /\ co_ctx = "result" /\ WorkSent) =>
              /\ UNCHANGED <<solution_found, cancel, cancel_tx>>
              /\ ~solution_found
              /\ ~cancel[cancel_tx].value
              /\ \A item \in ItemsAbout :
                    item.work_id < work_counter /\ item.cancel_rx # cancel_tx
              /\ \A w \in Workers :
                    /\ Len(work_rx'[w]) = Len(work_rx[w]) + 1
                    /\ work_rx'[w][Len(work_rx'[w])].work_id = work_counter
                    /\ work_rx'[w][Len(work_rx'[w])].cancel_rx = cancel_tx ]_vars

\* C27's case: a result was taken and its block submitted, and the generation
\* sent after it is out: its channel holds false, the one before holds true.
C27_Witness ==
    /\ co_pc = "select"
    /\ co_ctx = "result"
    /\ last_fetch = "ok"
    /\ Len(submitted) = 1
    /\ work_counter = 2
    /\ ~solution_found
    /\ ~cancel[cancel_tx].value
    /\ cancel[1].value
    /\ \E w \in Workers : w_work[w] # NoWork /\ w_work[w].work_id = 1

\* The item sent to worker w in this step.
ItemSent(w) == work_rx'[w][Len(work_rx'[w])]

\* C28: the work_id of a distribution is the value of work_counter, which the
\* distribution increments and nothing decrements, and every item about is of
\* a lower one: so work_id strictly increases from one distribution to the
\* next.  The items of one distribution, one to each worker, carry the same
\* work_id, the same header with nonce 0, the same transactions and receivers
\* of the same cancel channel; solution_found is the one flag of the miner.
C28_GenerationShared ==
    [][ /\ work_counter' >= work_counter
        /\ \A item \in ItemsAbout : item.work_id < work_counter
        /\ WorkSent =>
              /\ work_counter' = work_counter + 1
              /\ \A w \in Workers :
                    /\ Len(work_rx'[w]) = Len(work_rx[w]) + 1
                    /\ ItemSent(w).work_id = work_counter
                    /\ ItemSent(w).header.nonce = 0
              /\ \A w, v \in Workers :
                    /\ ItemSent(w).work_id = ItemSent(v).work_id
                    /\ ItemSent(w).header = ItemSent(v).header
                    /\ ItemSent(w).transactions = ItemSent(v).transactions
                    /\ ItemSent(w).cancel_rx = ItemSent(v).cancel_rx ]_vars

\* C28's case: the second distribution is in the work channels of both
\* workers while a worker still holds an item of the first.
C28_Witness ==
    /\ work_counter = 2
    /\ \A w \in Workers :
          work_rx[w] # <<>> /\ work_rx[w][Len(work_rx[w])].work_id = 1
    /\ \E w \in Workers : w_work[w] # NoWork /\ w_work[w].work_id = 0

\* C29: a submission that the node refuses, or that fails in transport, is
\* followed by what follows an accepted one.  Whatever the outcome, the step in
\* which submit_block returns leaves the coordinator running, before its 10 ms
\* sleep; after the sleep nothing stands in the way of the call of
\* get_and_distribute_work from the result branch, and it is the only step the
\* coordinator takes; and start_mining returns an error for nothing but a
\* failed initial fetch.
C29_FailedSubmitContinues ==
    [][ /\ (co_pc = "submit" /\ co_pc' # "submit") =>
              /\ co_pc' = "settle"
              /\ running' /\ running
              /\ last_submit' \in {"accepted", "refused", "err"}
        /\ co_pc = "settle" => ENABLED RestartWork
        /\ (co_pc = "settle" /\ co_pc' # "settle") =>
              /\ co_pc' = "fetch" /\ co_ctx' = "result"
              /\ running'
        /\ (co_pc' = "returned_err" /\ co_pc # "returned_err") =>
              co_pc = "fetch" /\ co_ctx = "initial" ]_vars

\* C29's case: the node has refused a block, and the generation fetched after
\* it is with the workers.
C29_Witness ==
    /\ last_submit = "refused"
    /\ co_pc = "select"
    /\ co_ctx = "result"
    /\ last_fetch = "ok"
    /\ running
    /\ work_counter = 2
    /\ \E w \in Workers : w_work[w] # NoWork /\ w_work[w].work_id = 1

\* C30: add_block compares prev_hash first, then validates the Merkle root,
\* then the proof of work.  A block that names the tail's hash and whose
\* merkle_root is not the root of its transactions is refused with
\* InvalidMerkleRoot, whatever its proof of work and skip_pow; a block wrong
\* in prev_hash and Merkle root is refused with InvalidPreviousHash; a block
\* is appended only if it passes every check made; and a refused block leaves
\* the chain as it was.
C30_FirstFailingCheck ==
    bc_call.result # "none" =>
        LET prev_ok == bc_call.block.header.prev_hash = TailHashAt(bc_call)
            merkle_ok == validate_merkle_root(bc_call.block)
            pow_ok == bc_call.skip_pow \/ validate_pow(bc_call.block.header)
        IN  /\ (prev_ok /\ ~merkle_ok) => bc_call.result = "InvalidMerkleRoot"
            /\ (~prev_ok /\ ~merkle_ok) => bc_call.result = "InvalidPreviousHash"
            /\ bc_call.result = "Ok" <=> (prev_ok /\ merkle_ok /\ pow_ok)
            /\ bc_call.result # "Ok" => bc = bc_call.before
            /\ bc_call.result = "Ok" => bc = Append(bc_call.before, bc_call.block)

\* C30's case: on a chain that has grown, a block on the right tail with a
\* wrong Merkle root and a header that fails its target was offered without
\* skip_pow, and refused with InvalidMerkleRoot.
C30_Witness ==
    /\ Len(bc) >= 2
    /\ bc_call.result = "InvalidMerkleRoot"
    /\ ~bc_call.skip_pow
    /\ bc_call.block.header.prev_hash = TailHashAt(bc_call)
    /\ ~validate_merkle_root(bc_call.block)
    /\ ~validate_pow(bc_call.block.header)
    /\ bc = bc_call.before

\* ------------------------------------------------------- validation properties

\* Whether add_block, given the blocks after the first one by one on the chain
\* so far, accepts every one of them.
RECURSIVE Appendable(_, _, _)
Appendable(built, rest, skip_pow) ==
    IF rest = <<>> THEN TRUE
    ELSE /\ add_block(built, Head(rest), skip_pow).result = "Ok"
         /\ Appendable(Append(built, Head(rest)), Tail(rest), skip_pow)

\* C31: validate_with_options(skip_pow) is true exactly when the first block
\* has a valid Merkle root and, unless skip_pow, a valid proof of work (its
\* prev_hash is not looked at), and add_block with the same skip_pow accepts
\* every later block on the blocks before it; a chain holding a block with a
\* wrong Merkle root, or a later block with a wrong prev_hash, validates to
\* false also with skip_pow = true.
C31_ValidateIsAppendChecks ==
    fn_call.fn = "validate_with_options" =>
        LET blocks == fn_call.blocks
            first == blocks[1]
        IN  /\ fn_call.result =
                   (/\ validate_merkle_root(first)
                    /\ fn_call.skip_pow \/ validate_pow(first.header)
                    /\ Appendable(<<first>>, Tail(blocks), fn_call.skip_pow))
            /\ (\E i \in 1..Len(blocks) :
                    blocks[i].header.merkle_root # compute_merkle_root(blocks[i].transactions))
                  => fn_call.result = FALSE
            /\ (\E i \in 2..Len(blocks) :
                    blocks[i].header.prev_hash # HashBlock(blocks[i - 1]))
                  => fn_call.result = FALSE

\* C31's case: with skip_pow = true, a chain of three blocks whose only fault
\* is the Merkle root of the last one validates to false.
C31_Witness ==
    /\ fn_call.fn = "validate_with_options"
    /\ fn_call.skip_pow
    /\ Len(fn_call.blocks) = 3
    /\ validate_with_options(SubSeq(fn_call.blocks, 1, 2), FALSE)
    /\ fn_call.blocks[3].header.prev_hash = HashBlock(fn_call.blocks[2])
    /\ validate_pow(fn_call.blocks[3].header)
    /\ fn_call.blocks[3].header.merkle_root = ConstHash(1)
    /\ fn_call.result = FALSE

\* ---------------------------------------------------- retarget direction

\* a < b for two numbers given by big-endian bytes.
NumLess(a, b) == ~NumLeq(b, a)

\* The target of the largest compact a retarget returns: 0xffff * 2^240, what
\* target_to_compact keeps of 2^256 - 1.
CapTarget == compact_to_target(target_to_compact(MaxTarget))

\* C32, as the specification states it: at a chain length that is a positive
\* multiple of 10, an interval of more than 6000 s gives a compact whose target
\* is strictly greater than the tail's, one of less than 6000 s a compact whose
\* target is strictly smaller.
C32_SlowRaisesFastLowers ==
    (fn_call.fn = "adjust_difficulty" /\ fn_call.len % 10 = 0) =>
        LET actual == SaturatingSub(fn_call.tail_time, fn_call.first_time)
            old == compact_to_target(fn_call.tail_compact)
            new == compact_to_target(fn_call.result)
        IN  /\ actual > 6000 => NumLess(old, new)
            /\ actual < 6000 => NumLess(new, old)

\* C32, as the code has it: a slow interval never lowers the target, and raises
\* it strictly when the tail's target is at least 6000 and is not already
\* 0xffff * 2^240, the largest target a retarget returns; a fast interval
\* never raises the target, lowers it strictly when the tail's target is not
\* zero, and leaves a target of zero at zero.
C32_RetargetDirection ==
    (fn_call.fn = "adjust_difficulty" /\ fn_call.len % 10 = 0) =>
        LET actual == SaturatingSub(fn_call.tail_time, fn_call.first_time)
            old == compact_to_target(fn_call.tail_compact)
            new == compact_to_target(fn_call.result)
        IN  /\ actual > 6000 =>
                  /\ NumLeq(old, new)
                  /\ (NumLeq(IntBytes(6000), old) /\ old # CapTarget) => NumLess(old, new)
            /\ actual < 6000 =>
                  /\ NumLeq(new, old)
                  /\ NumLess(new, old) <=> old # Zeros(HASH_SIZE)

\* C32's case: a chain of 20 blocks whose tail has the target 0xffff * 2^240
\* and is 6001 s later than the block ten before it; the retarget returns the
\* same target.
C32_Witness ==
    /\ fn_call.fn = "adjust_difficulty"
    /\ fn_call.len = 20
    /\ fn_call.tail_time - fn_call.first_time = 6001
    /\ compact_to_target(fn_call.tail_compact) = CapTarget
    /\ compact_to_target(fn_call.result) = CapTarget

\* ------------------------------------------------------ dropped cancel sender

\* The sender of the cancel channel of worker w's item is dropped.
SenderDropped(w) == w_work[w] # NoWork /\ cancel[w_work[w].cancel_rx].closed

\* Every cancel channel whose sender get_and_distribute_work has dropped holds
\* true: the coordinator sends true on it before it replaces the sender.
DroppedAfterCancel == \A i \in 1..Len(cancel) : cancel[i].closed => cancel[i].value

\* C33: a worker at the head of a batch whose cancel channel has lost its sender
\* gives the work item up, whatever the last value sent on the channel was.
C33_DropIsCancel ==
    [][\A w \in Workers :
          (w_pc[w] = "batch" /\ SenderDropped(w) /\ w_pc'[w] # "batch")
              => w_pc'[w] # "scan"]_vars

\* ------------------------------------------------ templates and submissions

\* Client c is submitting the block it mined on the template it holds.
OnTemplate(c) == rpc_method[c] = "submit_block" /\ rpc_result[c].kind = "template"

\* C34: when submit_block runs add_block on a block mined on a template (header
\* fields and transactions of the template, a nonce that meets the target) and
\* the chain is as long as when the template was made, the block is appended;
\* and every submit_block call that has appended its block answers
\* accepted:true.
C34_TemplateBlockAccepted ==
    [][\A c \in Clients :
          /\ ( /\ rpc_pc[c] = "sb_chain"
               /\ OnTemplate(c)
               /\ rpc_pc'[c] # "sb_chain"
               /\ Len(chain) = rpc_result[c].height )
             => /\ rpc_pc'[c] = "sb_mempool"
                /\ chain' = Append(chain, rpc_block[c])
          /\ (rpc_pc[c] = "sb_mempool" /\ rpc_pc'[c] # "sb_mempool")
             => /\ rpc_pc'[c] = "done"
                /\ rpc_result'[c].kind = "submit"
                /\ rpc_result'[c].accepted]_vars

\* C34's case: a block mined on a template of one transaction, made when the
\* chain had two blocks, is the third block of the chain.
C34_Witness ==
    \E c \in Clients :
        /\ rpc_pc[c] = "sb_mempool"
        /\ OnTemplate(c)
        /\ rpc_result[c].height = 2
        /\ Len(rpc_result[c].transactions) = 1
        /\ chain = <<chain[1], chain[2], rpc_block[c]>>

\* C35: every block submit_block appends declares the difficulty_compact that
\* adjust_difficulty gives for the chain it is appended to; a block declaring
\* an easier one is refused.
C35_DifficultyEnforced ==
    [][\A c \in Clients :
          (rpc_pc[c] = "sb_chain" /\ chain' = Append(chain, rpc_block[c]))
              => rpc_block[c].header.difficulty_compact = adjust_difficulty(chain)]_vars

\* ------------------------------------------------------------------- locks

\* Client c's handler is running: called and not yet answered.
InHandler(c) == rpc_pc[c] \in {"sb_chain", "sb_mempool", "q_chain", "q_mempool"}

\* Client c's handler holds a lock on the chain.
HoldsChain(c) == chain_writer = c \/ c \in chain_readers

BuildsTemplate(c) ==
    /\ rpc_pc[c] = "q_mempool"
    /\ rpc_method[c] = "get_block_template"
    /\ rpc_pc'[c] = "done"

\* C37: a template built on a tail that submit_block appended holds none of
\* that tail's transactions, and no template is built between the append of a
\* block and the removal of its transactions from the mempool: no handler
\* reads the chain while a submit_block holds it for that.
C37_TemplateAfterRemoval ==
    /\ [](\A c \in Clients : rpc_pc[c] = "sb_mempool" => chain_readers = {})
    /\ [][\A c \in Clients :
            BuildsTemplate(c) =>
                /\ \A d \in Clients : rpc_pc[d] # "sb_mempool"
                /\ Len(chain) > 1 =>
                      \A i \in 1..Len(rpc_result'[c].transactions) :
                          \A j \in 1..Len(latest_block(chain).transactions) :
                              HashTx(rpc_result'[c].transactions[i])
                                  # HashTx(latest_block(chain).transactions[j])]_vars

\* C37's case: a template of one transaction built on a tail that was accepted
\* with another transaction of the mempool.
C37_Witness ==
    \E c \in Clients :
        /\ rpc_pc[c] = "done"
        /\ rpc_result[c].kind = "template"
        /\ Len(chain) > 1
        /\ rpc_result[c].height = Len(chain)
        /\ latest_block(chain).transactions = <<TestTx(1)>>
        /\ rpc_result[c].transactions = <<TestTx(2)>>

\* -------------------------------------------------------------- statistics

\* C38: blocks_found counts the submissions the node accepted: it grows by one
\* when a submit_block call returns accepted:true and is left alone by every
\* other step, a refused or a failed submission among them.
C38_CountsAccepted ==
    [][blocks_found' =
          IF co_pc = "submit" /\ co_pc' # "submit" /\ last_submit' = "accepted"
          THEN blocks_found + 1 ELSE blocks_found]_vars

\* ------------------------------------------------------ totality of the PoW check

\* C39: for a decoded block that names the tail's hash and has the Merkle root
\* of its transactions, the step of submit_block that runs add_block either
\* appends the block (and goes on to answer accepted:true) or answers
\* accepted:false, whatever difficulty_compact the header declares.
C39_PowCheckTotal ==
    [][\A c \in Clients :
          ( /\ rpc_pc[c] = "sb_chain"
            /\ rpc_pc'[c] # "sb_chain"
            /\ rpc_block[c].header.prev_hash = HashBlock(latest_block(chain))
            /\ validate_merkle_root(rpc_block[c]) )
          => \/ rpc_pc'[c] = "sb_mempool" /\ chain' = Append(chain, rpc_block[c])
             \/ /\ rpc_pc'[c] = "done"
                /\ rpc_result'[c].kind = "submit"
                /\ ~rpc_result'[c].accepted]_vars

\* ------------------------------------------------- transactions of the chain

\* C40: every transaction of every block of the node's chain has at least one
\* input and at least one output.
C40_NoEmptyTransaction ==
    \A i \in 1..Len(chain) :
        \A j \in 1..Len(chain[i].transactions) :
            /\ chain[i].transactions[j].inputs # <<>>
            /\ chain[i].transactions[j].outputs # <<>>

====
